---------------------------- MODULE Spec2Model ----------------------------
(***************************************************************************)
(* Bill-intelligence pipeline of the AI Billing Concierge.                 *)
(*                                                                         *)
(* Numbers.  JavaScript numbers are modelled exactly: kWh are integers,    *)
(* money is an integer number of cents, and a quotient such as the         *)
(* percentage change ((current - previous) / previous) * 100 is kept as    *)
(* the fraction [num, den].  den = 0 with num = 0 is NaN (0/0), den = 0    *)
(* with num # 0 is +/-Infinity.  Every comparison of a fraction with a     *)
(* threshold is done by cross-multiplication; on the integer inputs used   *)
(* here the IEEE-754 result of the source expression and the exact value   *)
(* lie on the same side of every threshold.                                *)
(***************************************************************************)
EXTENDS Integers, Sequences, FiniteSets, TLC

VARIABLES
    anomalyDetector,       \* the process-wide analyzer instances of the router
    predictiveAnalyzer,
    recommendationEngine,
    patternAnalyzer,
    month,                 \* new Date().getMonth(), 0..11
    reqs,                  \* the invocations of the /advanced-upload handler
    call                   \* the direct invocations of a method and what they
                           \* returned, or the fields of a PaymentService

services == <<anomalyDetector, predictiveAnalyzer, recommendationEngine, patternAnalyzer>>

vars == <<anomalyDetector, predictiveAnalyzer, recommendationEngine, patternAnalyzer,
          month, reqs, call>>

-----------------------------------------------------------------------------
(* Bounds of the model                                                     *)

MaxKwhSteps == 29      \* usage.totalKwh ranges over 0, 50, .., 50 * MaxKwhSteps
MaxAmountSteps == 31   \* charges.totalAmount over 0, 500, .., 500 * MaxAmountSteps cents
MaxPeakTenths == 6     \* usage.peakKwh over 0/10 .. MaxPeakTenths/10 of totalKwh

-----------------------------------------------------------------------------
(* Fractions                                                               *)

Abs(x) == IF x < 0 THEN -x ELSE x

Frac(n, d) == [num |-> n, den |-> d]

\* Math.abs(r)
FracAbs(r) == Frac(Abs(r.num), r.den)

\* r > k  (false for NaN; denominators are never negative)
FracGt(r, k) == IF r.den = 0 THEN r.num > 0 ELSE r.num > k * r.den

\* r >= k
FracGe(r, k) == IF r.den = 0 THEN r.num > 0 ELSE r.num >= k * r.den

RECURSIVE Gcd(_, _)
Gcd(a, b) == IF b = 0 THEN a ELSE Gcd(b, a % b)

\* the same fraction in lowest terms (TLC's integers are 32 bits wide)
Reduce(r) ==
    LET g == Gcd(Abs(r.num), r.den)
    IN  IF g = 0 THEN r ELSE Frac(r.num \div g, r.den \div g)

\* a <= b for two fractions, neither NaN nor infinite
FracLeq(a, b) == Reduce(a).num * Reduce(b).den <= Reduce(b).num * Reduce(a).den

-----------------------------------------------------------------------------
(* Bill records                                                            *)

\* comparisons.previousMonth, when supplied
PrevUsageValues == {0, 1000}
PrevAmountValues == {0, 10000}

KwhValues == {50 * k : k \in 0..MaxKwhSteps}
AmountValues == {500 * k : k \in 0..MaxAmountSteps}

NoPreviousMonth == [present |-> FALSE, usage |-> 0, amount |-> 0]

PreviousMonths ==
    {NoPreviousMonth} \cup
    {[present |-> TRUE, usage |-> u, amount |-> a] :
        u \in PrevUsageValues, a \in PrevAmountValues}

NoComparisons == [present |-> FALSE, previousMonth |-> NoPreviousMonth]

Comparisons ==
    {NoComparisons} \cup
    {[present |-> TRUE, previousMonth |-> p] : p \in PreviousMonths}

BillRecord(kwh, tenths, amount, cmp) ==
    [usage |-> [totalKwh |-> kwh, peakKwh |-> (kwh * tenths) \div 10],
     charges |-> [totalAmount |-> amount],
     comparisons |-> cmp]

BillRecords ==
    {BillRecord(k, t, a, c) :
        k \in KwhValues, t \in 0..MaxPeakTenths, a \in AmountValues, c \in Comparisons}

-----------------------------------------------------------------------------
(* AnomalyDetector                                                         *)

InitThresholds ==
    [usage |-> [mild |-> 15, moderate |-> 25, severe |-> 40],
     cost |-> [mild |-> 20, moderate |-> 35, severe |-> 50],
     efficiency |-> [mild |-> 10, moderate |-> 20, severe |-> 30]]

\* ((current - previous) / previous) * 100
PctChange(current, previous) == Frac((current - previous) * 100, previous)

\* variant: the two upper tiers exchanged
getSeverity_swapped(value, th) ==
    IF FracGe(value, th.severe) THEN "moderate"
    ELSE IF FracGe(value, th.moderate) THEN "severe"
    ELSE "mild"

\* variant: a tier starts strictly above its threshold
getSeverity_strict(value, th) ==
    IF FracGt(value, th.severe) THEN "severe"
    ELSE IF FracGt(value, th.moderate) THEN "moderate"
    ELSE "mild"

getSeverity(value, th) ==
    IF FracGe(value, th.severe) THEN "severe"
    ELSE IF FracGe(value, th.moderate) THEN "moderate"
    ELSE "mild"

getUsageRecommendations(change) ==
    IF FracGt(change, 0)
    THEN <<"Check for malfunctioning appliances", "Review HVAC system efficiency",
           "Monitor daily usage patterns", "Consider energy audit">>
    ELSE <<"Great job on reducing consumption!", "Continue current practices",
           "Monitor for any service issues">>

getCostRecommendations(change) ==
    IF FracGt(change, 0)
    THEN <<"Review rate changes", "Analyze usage patterns",
           "Check for billing errors", "Consider dispute if necessary">>
    ELSE <<"Excellent cost management!", "Review what caused the decrease",
           "Apply successful strategies consistently">>

getPeakRecommendations ==
    <<"Shift appliance usage to off-peak hours", "Use programmable timers",
      "Consider time-of-use rate plans", "Optimize heating/cooling schedules">>

\* variant: the fallback is the previous usage of the mock record
OrCurrent_mock(pm, value, current) ==
    IF pm.present /\ value # 0 THEN value ELSE 654

\* previousMonth?.usage || current : an absent previousMonth and a previous
\* value of 0 both fall back to the current value
OrCurrent(pm, value, current) ==
    IF pm.present /\ value # 0 THEN value ELSE current

detectUsageAnomalies(billData, th) ==
    LET current == billData.usage.totalKwh
        pm == billData.comparisons.previousMonth
        previous == OrCurrent(pm, pm.usage, current)
        change == PctChange(current, previous)
    IN  IF FracGt(FracAbs(change), th.usage.mild)
        THEN << [type |-> "usage_anomaly",
                 severity |-> getSeverity(FracAbs(change), th.usage),
                 title |-> IF FracGt(change, 0) THEN "Increased Usage Pattern"
                                                ELSE "Decreased Usage Pattern",
                 impact |-> FracAbs(change),
                 recommendations |-> getUsageRecommendations(change)] >>
        ELSE << >>

detectCostAnomalies(billData, th) ==
    LET current == billData.charges.totalAmount
        pm == billData.comparisons.previousMonth
        previous == OrCurrent(pm, pm.amount, current)
        change == PctChange(current, previous)
    IN  IF FracGt(FracAbs(change), th.cost.mild)
        THEN << [type |-> "cost_anomaly",
                 severity |-> getSeverity(FracAbs(change), th.cost),
                 title |-> IF FracGt(change, 0) THEN "Higher Bill Amount"
                                                ELSE "Lower Bill Amount",
                 impact |-> FracAbs(change),
                 recommendations |-> getCostRecommendations(change)] >>
        ELSE << >>

\* variant: severe from a peak ratio of 50 on
detectPatternAnomalies_ge(billData) ==
    IF billData.usage.peakKwh # 0 /\ billData.usage.totalKwh # 0
    THEN LET peakRatio == Frac(billData.usage.peakKwh * 100, billData.usage.totalKwh)
         IN  IF FracGt(peakRatio, 40)
             THEN << [type |-> "peak_usage_anomaly",
                      severity |-> IF FracGe(peakRatio, 50) THEN "severe" ELSE "moderate",
                      title |-> "High Peak Usage Pattern",
                      impact |-> peakRatio,
                      recommendations |-> getPeakRecommendations] >>
             ELSE << >>
    ELSE << >>

detectPatternAnomalies(billData) ==
    IF billData.usage.peakKwh # 0 /\ billData.usage.totalKwh # 0
    THEN LET peakRatio == Frac(billData.usage.peakKwh * 100, billData.usage.totalKwh)
         IN  IF FracGt(peakRatio, 40)
             THEN << [type |-> "peak_usage_anomaly",
                      severity |-> IF FracGt(peakRatio, 50) THEN "severe" ELSE "moderate",
                      title |-> "High Peak Usage Pattern",
                      impact |-> peakRatio,
                      recommendations |-> getPeakRecommendations] >>
             ELSE << >>
    ELSE << >>

severityOrder == [severe |-> 3, moderate |-> 2, mild |-> 1]

\* the comparator handed to Array.prototype.sort
compareSeverity(a, b) == severityOrder[b.severity] - severityOrder[a.severity]

\* Array.prototype.sort is stable: x goes behind every element that does not
\* sort after it
RECURSIVE InsertBySeverity(_, _)
InsertBySeverity(sorted, x) ==
    IF sorted = << >> THEN <<x>>
    ELSE IF compareSeverity(sorted[Len(sorted)], x) <= 0
         THEN Append(sorted, x)
         ELSE Append(InsertBySeverity(SubSeq(sorted, 1, Len(sorted) - 1), x),
                     sorted[Len(sorted)])

RECURSIVE SortBySeverity(_)
SortBySeverity(s) ==
    IF s = << >> THEN << >>
    ELSE InsertBySeverity(SortBySeverity(SubSeq(s, 1, Len(s) - 1)), s[Len(s)])

\* variant: detection order kept
prioritizeAnomalies_unsorted(anomalies) == anomalies

prioritizeAnomalies(anomalies) == SortBySeverity(anomalies)

\* billData.usage is an object in every record considered; billData.comparisons
\* may be absent
detectAnomalies(billData, th) ==
    LET usageAnomalies ==
            IF billData.comparisons.present THEN detectUsageAnomalies(billData, th) ELSE << >>
        costAnomalies ==
            IF billData.comparisons.present THEN detectCostAnomalies(billData, th) ELSE << >>
        patternAnomalies == detectPatternAnomalies(billData)
    IN  prioritizeAnomalies(usageAnomalies \o costAnomalies \o patternAnomalies)

\* variant: a large record raises the shared usage threshold
detectAnomaliesThis_adaptive(self, billData) ==
    IF billData.usage.totalKwh > 1000
    THEN [self EXCEPT !.thresholds.usage.mild = 50]
    ELSE self

\* `this` after detectAnomalies(billData): no method of the class assigns a
\* field of the instance
detectAnomaliesThis(self, billData) == self

-----------------------------------------------------------------------------
(* PredictiveAnalyzer.  Seasonal factors are in tenths, confidences in     *)
(* hundredths, amounts in cents.                                           *)

InitSeasonalFactors == [winter |-> 13, spring |-> 9, summer |-> 14, fall |-> 10]

\* Math.round of a non-negative fraction
Round(r) == (2 * r.num + r.den) \div (2 * r.den)

\* variant: the default growth of 2% whatever the comparison
OnePlusTrend_default(billData) == Frac(102, 100)

\* 1 + calculateTrend(billData): 1.02 without a previous month, else
\* 1 + (current - previous) / previous
OnePlusTrend(billData) ==
    IF ~billData.comparisons.present \/ ~billData.comparisons.previousMonth.present
    THEN Frac(102, 100)
    ELSE Frac(billData.charges.totalAmount, billData.comparisons.previousMonth.amount)

predictNextMonth(billData) ==
    LET g == OnePlusTrend(billData)
    IN  [usage |-> Round(Frac(billData.usage.totalKwh * g.num, g.den)),
         amount |-> Round(Frac(billData.charges.totalAmount * g.num, g.den)),
         confidence |-> 85]

\* variant: the month index taken as a month number (1 = January)
getSeasonalFactor_monthNumber(monthsAhead, sf, currentMonth) ==
    LET futureMonth == (currentMonth + 1 + monthsAhead) % 12
    IN  IF futureMonth >= 11 \/ futureMonth <= 1 THEN sf.winter
        ELSE IF futureMonth >= 2 /\ futureMonth <= 4 THEN sf.spring
        ELSE IF futureMonth >= 5 /\ futureMonth <= 8 THEN sf.summer
        ELSE sf.fall

\* currentMonth is new Date().getMonth(): 0 = January .. 11 = December
getSeasonalFactor(monthsAhead, sf, currentMonth) ==
    LET futureMonth == (currentMonth + monthsAhead) % 12
    IN  IF futureMonth >= 11 \/ futureMonth <= 1 THEN sf.winter
        ELSE IF futureMonth >= 2 /\ futureMonth <= 4 THEN sf.spring
        ELSE IF futureMonth >= 5 /\ futureMonth <= 8 THEN sf.summer
        ELSE sf.fall

predictQuarterly(billData, sf, currentMonth) ==
    [i \in 1..3 |->
        LET seasonalFactor == getSeasonalFactor(i, sf, currentMonth)
        IN  [month |-> i,
             usage |-> Round(Frac(billData.usage.totalKwh * seasonalFactor, 10)),
             amount |-> Round(Frac(billData.charges.totalAmount * seasonalFactor, 10))]]

predictAnnual(billData) ==
    LET annualEstimate == billData.charges.totalAmount * 12
    IN  [estimatedTotal |-> annualEstimate,
         breakdown |-> [energy |-> Round(Frac(annualEstimate * 70, 100)),
                        delivery |-> Round(Frac(annualEstimate * 15, 100)),
                        fees |-> Round(Frac(annualEstimate * 15, 100))],
         confidence |-> 75]

predictSeasonal(billData, sf) ==
    LET seasons == <<"winter", "spring", "summer", "fall">>
    IN  [k \in 1..4 |->
            [season |-> seasons[k],
             factor |-> sf[seasons[k]],
             estimatedAmount |-> Round(Frac(billData.charges.totalAmount * sf[seasons[k]], 10))]]

\* a previous month, when present, has a non-zero amount in the records this is
\* applied to
generatePredictions(billData, sf, currentMonth) ==
    [present |-> TRUE,
     nextMonth |-> predictNextMonth(billData),
     quarterly |-> predictQuarterly(billData, sf, currentMonth),
     annual |-> predictAnnual(billData),
     seasonal |-> predictSeasonal(billData, sf)]

\* variant: an invocation adjusts the summer factor of the instance
generatePredictionsThis_learning(self, billData) ==
    [self EXCEPT !.seasonalFactors.summer = 15]

\* `this` after generatePredictions(billData): no method of the class assigns
\* a field of the instance
generatePredictionsThis(self, billData) == self

-----------------------------------------------------------------------------
(* RecommendationEngine.  A title `Address ${anomaly.title}` is the pair    *)
(* <<"Address", anomaly.title>>; savings are fractions.                     *)

InitCategories ==
    [immediate |-> [maxDays |-> 7, priority |-> "high"],
     shortTerm |-> [maxDays |-> 30, priority |-> "medium"],
     longTerm |-> [maxDays |-> 365, priority |-> "low"]]

\* savingsMultiplier, in hundredths
savingsMultiplier ==
    [severe |-> 25, moderate |-> 15, mild |-> 5, high |-> 20, medium |-> 10, low |-> 5]

\* variant: the multiplier is the fallback 0.1 whatever the severity
calculateSavings_fallback(anomaly) ==
    LET impact == IF anomaly.impact.num = 0 THEN Frac(100, 1) ELSE anomaly.impact
    IN  Frac(impact.num * 10, impact.den * 100)

\* (anomaly.impact || 100) * multiplier; every anomaly has a severity of the table
calculateSavings(anomaly) ==
    LET impact == IF anomaly.impact.num = 0 THEN Frac(100, 1) ELSE anomaly.impact
    IN  Frac(impact.num * savingsMultiplier[anomaly.severity], impact.den * 100)

generateAnomalyRecommendations(anomalies) ==
    [k \in 1..Len(anomalies) |->
        [title |-> <<"Address", anomalies[k].title>>,
         category |-> "anomaly_response",
         priority |-> anomalies[k].severity,
         savings |-> calculateSavings(anomalies[k]),
         actions |-> anomalies[k].recommendations,
         timeline |-> "1-7 days",
         impact |-> "high"]]

\* variant: a tenth of the total whatever the percentage
ShareOfTotal_tenth(billData, percent) == Frac(billData.charges.totalAmount * 10, 10000)

\* totalAmount (cents) * percent / 100, in dollars
ShareOfTotal(billData, percent) == Frac(billData.charges.totalAmount * percent, 10000)

\* variant: the audit is recommended from 1000 kWh on
ExceedsAuditUsage_ge(billData) == billData.usage.totalKwh >= 1000

\* billData.usage.totalKwh > 1000
ExceedsAuditUsage(billData) == billData.usage.totalKwh > 1000

generateUsageRecommendations(billData) ==
    (IF ExceedsAuditUsage(billData)
     THEN << [title |-> <<"Energy Efficiency Audit">>,
              category |-> "efficiency",
              priority |-> "high",
              savings |-> ShareOfTotal(billData, 20),
              actions |-> <<"Schedule professional energy audit",
                            "Identify major inefficiencies",
                            "Implement recommended fixes", "Monitor improvements">>,
              timeline |-> "2-4 weeks",
              impact |-> "high"] >>
     ELSE << >>)
    \o
    (IF /\ billData.usage.peakKwh # 0
        /\ billData.usage.totalKwh # 0
        /\ FracGt(Frac(billData.usage.peakKwh * 100, billData.usage.totalKwh), 35)
     THEN << [title |-> <<"Peak Usage Optimization">>,
              category |-> "scheduling",
              priority |-> "medium",
              savings |-> ShareOfTotal(billData, 15),
              actions |-> <<"Shift appliance usage to off-peak hours",
                            "Install programmable timers", "Use smart home automation",
                            "Monitor peak usage patterns">>,
              timeline |-> "1-2 weeks",
              impact |-> "medium"] >>
     ELSE << >>)
    \o
    << [title |-> <<"Smart Thermostat Installation">>,
        category |-> "equipment",
        priority |-> "medium",
        savings |-> ShareOfTotal(billData, 12),
        actions |-> <<"Research smart thermostat options", "Professional installation",
                      "Configure optimal schedules", "Monitor energy savings">>,
        timeline |-> "1-3 weeks",
        impact |-> "medium"] >>

generateCostOptimizationRecommendations(billData) ==
    << [title |-> <<"Rate Plan Analysis">>,
        category |-> "rate_optimization",
        priority |-> "medium",
        savings |-> ShareOfTotal(billData, 10),
        actions |-> <<"Review current rate plan details",
                      "Compare with available alternatives",
                      "Calculate potential savings",
                      "Switch to optimal plan if beneficial">>,
        timeline |-> "1-2 months",
        impact |-> "medium"],
       [title |-> <<"Appliance Efficiency Review">>,
        category |-> "equipment",
        priority |-> "low",
        savings |-> ShareOfTotal(billData, 8),
        actions |-> <<"Audit current appliances", "Identify energy-hungry devices",
                      "Research efficient replacements", "Plan staged upgrades">>,
        timeline |-> "3-12 months",
        impact |-> "low"],
       [title |-> <<"Home Insulation Assessment">>,
        category |-> "insulation",
        priority |-> "low",
        savings |-> ShareOfTotal(billData, 15),
        actions |-> <<"Professional insulation audit", "Identify improvement areas",
                      "Get quotes for upgrades", "Implement improvements">>,
        timeline |-> "2-6 months",
        impact |-> "high"] >>

\* variant: the comparison never holds
HigherBillsPredicted_never(predictions) == FALSE

\* nextMonth.amount > nextMonth.amount * 1.1, for an amount in cents
HigherBillsPredicted(predictions) ==
    predictions.nextMonth.amount * 10 > predictions.nextMonth.amount * 11

generatePredictiveRecommendations(predictions) ==
    (IF HigherBillsPredicted(predictions)
     THEN << [title |-> <<"Prepare for Higher Bills">>,
              category |-> "budgeting",
              priority |-> "medium",
              savings |-> Frac(0, 1),
              actions |-> <<"Adjust monthly budget", "Reduce discretionary usage",
                            "Monitor daily consumption",
                            "Implement immediate savings measures">>,
              timeline |-> "This month",
              impact |-> "medium"] >>
     ELSE << >>)
    \o
    (LET highSeasons == SelectSeq(predictions.seasonal, LAMBDA s : s.factor > 12)
     IN  IF Len(highSeasons) > 0
         THEN << [title |-> <<"Seasonal Usage Preparation">>,
                  category |-> "seasonal_planning",
                  priority |-> "low",
                  savings |-> Frac(predictions.nextMonth.amount * 10, 10000),
                  actions |-> <<"Plan seasonal energy strategies",
                                "Schedule equipment maintenance",
                                "Adjust budget for high-usage seasons",
                                "Implement preventive measures">>,
                  timeline |-> "1-3 months",
                  impact |-> "medium"] >>
         ELSE << >>)

priorityOrder == [high |-> 3, medium |-> 2, low |-> 1]

\* the comparator of prioritizeRecommendations.  priorityOrder[p] is undefined
\* for a priority outside the table, the difference is then NaN, and sort takes
\* a NaN comparator result as 0.
compareRecommendations(a, b) ==
    IF a.priority \notin DOMAIN priorityOrder \/ b.priority \notin DOMAIN priorityOrder
    THEN 0
    ELSE IF priorityOrder[b.priority] # priorityOrder[a.priority]
         THEN priorityOrder[b.priority] - priorityOrder[a.priority]
         ELSE IF FracLeq(b.savings, a.savings) /\ FracLeq(a.savings, b.savings) THEN 0
              ELSE IF FracLeq(b.savings, a.savings) THEN -1 ELSE 1

RECURSIVE InsertRecommendation(_, _)
InsertRecommendation(sorted, x) ==
    IF sorted = << >> THEN <<x>>
    ELSE IF compareRecommendations(sorted[Len(sorted)], x) <= 0
         THEN Append(sorted, x)
         ELSE Append(InsertRecommendation(SubSeq(sorted, 1, Len(sorted) - 1), x),
                     sorted[Len(sorted)])

RECURSIVE SortRecommendations(_)
SortRecommendations(s) ==
    IF s = << >> THEN << >>
    ELSE InsertRecommendation(SortRecommendations(SubSeq(s, 1, Len(s) - 1)), s[Len(s)])

prioritizeRecommendations(recommendations) ==
    [category \in DOMAIN recommendations |-> SortRecommendations(recommendations[category])]

\* billData.usage and billData.charges are objects in every record considered;
\* `predictions` may be undefined (present = FALSE)
generateRecommendations(billData, anomalies, predictions) ==
    prioritizeRecommendations(
        [immediate |-> IF Len(anomalies) > 0
                       THEN generateAnomalyRecommendations(anomalies) ELSE << >>,
         shortTerm |-> generateUsageRecommendations(billData) \o
                       (IF predictions.present
                        THEN generatePredictiveRecommendations(predictions) ELSE << >>),
         longTerm |-> generateCostOptimizationRecommendations(billData)])

generateRecommendationsThis(self, billData, anomalies, predictions) == self

-----------------------------------------------------------------------------
(* PatternAnalyzer.analyzePatterns.  Of its result the model keeps the     *)
(* usage block, the season and the correlations; the other fields are      *)
(* arithmetic on the same record.  Correlations are in thousandths.  The   *)
(* records carry no usage.offPeakKwh, so that it is totalKwh - peakKwh.    *)

getSeason(m) ==
    IF m >= 11 \/ m <= 1 THEN "winter"
    ELSE IF m >= 2 /\ m <= 4 THEN "spring"
    ELSE IF m >= 5 /\ m <= 8 THEN "summer"
    ELSE "fall"

classifyUsagePattern(usage) ==
    IF usage < 600 THEN "low"
    ELSE IF usage < 1000 THEN "average"
    ELSE IF usage < 1500 THEN "high"
    ELSE "very_high"

\* Math.random() * 0.6 + 0.4 for a draw given in hundredths
calculateCorrelation(draw) == 6 * draw + 400

\* the two values Math.random() returns to analyzeCorrelations, in hundredths
RandomDraws == {<<0, 0>>, <<70, 60>>, <<50, 70>>}

\* calculateEfficiency(billData.comparisons.previousMonth) reads
\* previousMonth.charges.totalAmount when previousMonth.usage is truthy;
\* previousMonth has no charges: TypeError
analyzePatternsRaises(billData) ==
    /\ billData.comparisons.present
    /\ billData.comparisons.previousMonth.present
    /\ billData.comparisons.previousMonth.usage # 0

analyzePatterns(billData, currentMonth, draws) ==
    LET usage == billData.usage.totalKwh
        peakUsage == billData.usage.peakKwh
        offPeakUsage == usage - peakUsage
        usageVsCost == calculateCorrelation(draws[1])
        peakVsTotal == calculateCorrelation(draws[2])
    IN  [usage |-> [totalUsage |-> usage,
                    peakRatio |-> Frac(peakUsage * 100, usage),
                    offPeakRatio |-> Frac(offPeakUsage * 100, usage),
                    classification |-> classifyUsagePattern(usage)],
         seasonal |-> [currentSeason |-> getSeason(currentMonth)],
         correlations |->
            [usageVsCost |-> usageVsCost,
             peakVsTotal |-> peakVsTotal,
             insights |->
                (IF usageVsCost > 800
                 THEN <<"Strong correlation between usage and cost - rate structure is consistent">>
                 ELSE << >>) \o
                (IF peakVsTotal > 700
                 THEN <<"Peak usage significantly impacts total cost - time-shifting opportunities exist">>
                 ELSE << >>)]]

analyzePatternsThis(self, billData) == self

-----------------------------------------------------------------------------
(* The process-wide instances (constructors)                               *)

InitServices ==
    /\ anomalyDetector = [thresholds |-> InitThresholds]
    /\ predictiveAnalyzer = [seasonalFactors |-> InitSeasonalFactors]
    /\ recommendationEngine = [categories |-> InitCategories]
    /\ patternAnalyzer = [patterns |-> [daily |-> {}, weekly |-> {},
                                        monthly |-> {}, seasonal |-> {}]]

-----------------------------------------------------------------------------
(* POST /advanced-upload.  An uploaded file carries, besides its name, what *)
(* the collaborators outside the model make of it: the record the           *)
(* extraction recovers, its confidence (tenths), and the awaited call that  *)
(* rejects for it, if any.                                                  *)

MaxFiles == 2       \* documents in one upload (multer admits up to 5)
NumRequests == 2    \* concurrent invocations of the handler

FileNames == {"a.pdf", "b.pdf"}

NoFault == "none"

AnalyzerStages ==
    {"detectAnomalies", "generatePredictions", "generateRecommendations", "analyzePatterns"}

\* no previous month, half of the usage at peak: one moderate anomaly; patterns succeed
BillWithoutComparisons == BillRecord(1200, 5, 20000, NoComparisons)

\* usage +40%, amount +55% on the previous month: two severe anomalies; the
\* pattern analysis raises
BillWithPreviousMonth ==
    BillRecord(1400, 0, 15500,
               [present |-> TRUE,
                previousMonth |-> [present |-> TRUE, usage |-> 1000, amount |-> 10000]])

\* comparisons without a previous month: no anomaly; patterns succeed
BillWithoutPreviousMonth ==
    BillRecord(500, 0, 5000, [present |-> TRUE, previousMonth |-> NoPreviousMonth])

HandlerBills == {BillWithoutComparisons, BillWithPreviousMonth, BillWithoutPreviousMonth}

UploadedFile(name, data, raises) ==
    [originalname |-> name, data |-> data, confidence |-> 9, raises |-> raises]

Files ==
    {UploadedFile(n, b, NoFault) : n \in FileNames, b \in HandlerBills} \cup
    {UploadedFile(n, BillWithoutComparisons, f) :
        n \in FileNames, f \in {"processDocument"} \cup AnalyzerStages}

\* the files of concurrent requests
ConcurrentFiles ==
    {UploadedFile("a.pdf", b, NoFault) : b \in {BillWithoutComparisons, BillWithPreviousMonth}}
    \cup {UploadedFile("a.pdf", BillWithoutComparisons, f) :
            f \in {"processDocument", "generatePredictions"}}

RECURSIVE SeqsUpTo(_, _)
SeqsUpTo(S, n) ==
    IF n = 0 THEN {<< >>}
    ELSE LET shorter == SeqsUpTo(S, n - 1)
         IN  shorter \cup {Append(q, x) : q \in shorter, x \in S}

Undefined == [present |-> FALSE]

\* the result of documentProcessor.processDocument(file)
processDocument(file) ==
    [usage |-> file.data.usage,
     charges |-> file.data.charges,
     comparisons |-> file.data.comparisons,
     confidence |-> file.confidence,
     fileName |-> file.originalname]

\* error.message of what the awaited call of `stage` throws
ErrorMessage(stage, file) ==
    IF stage = "processDocument" THEN "Failed to process document"
    ELSE IF file.raises = stage THEN "analyzer raised"
    ELSE "Cannot read properties of undefined (reading 'totalAmount')"

\* does the awaited call of `stage` reject for this file
Rejects(stage, file) ==
    \/ file.raises = stage
    \/ stage = "analyzePatterns" /\ analyzePatternsRaises(file.data)

\* variant: the recommendations are requested before the predictions
StageAfter_recommendFirst(stage) ==
    CASE stage = "processDocument" -> "detectAnomalies"
      [] stage = "detectAnomalies" -> "generateRecommendations"
      [] stage = "generateRecommendations" -> "generatePredictions"
      [] stage = "generatePredictions" -> "analyzePatterns"

\* the order of the awaited calls in the body of the loop
StageAfter(stage) ==
    CASE stage = "processDocument" -> "detectAnomalies"
      [] stage = "detectAnomalies" -> "generatePredictions"
      [] stage = "generatePredictions" -> "generateRecommendations"
      [] stage = "generateRecommendations" -> "analyzePatterns"

\* variant: every entry counted as successful
Response_countAll(files, results) ==
    [status |-> 200,
     success |-> TRUE,
     results |-> results,
     totalFiles |-> Len(files),
     successfulFiles |-> Len(results)]

\* res.json({success, results, totalFiles, successfulFiles})
Response(files, results) ==
    [status |-> 200,
     success |-> TRUE,
     results |-> results,
     totalFiles |-> Len(files),
     successfulFiles |-> Cardinality({k \in 1..Len(results) : results[k].success})]

NoResponse == [status |-> 0]

\* a new invocation of the handler
Request(files) ==
    [files |-> files,
     pc |-> "start",
     i |-> 0,
     extractedData |-> Undefined,
     anomalies |-> << >>,
     predictions |-> Undefined,
     recommendations |-> Undefined,
     completed |-> {},
     results |-> << >>,
     response |-> NoResponse]

\* the end of one iteration of the loop: the next file, or the response
AfterFile(q, results) ==
    LET cleared == [q EXCEPT !.results = results,
                             !.extractedData = Undefined,
                             !.anomalies = << >>,
                             !.predictions = Undefined,
                             !.recommendations = Undefined,
                             !.completed = {}]
    IN  IF q.i < Len(q.files)
        THEN [cleared EXCEPT !.i = q.i + 1, !.pc = "processDocument"]
        ELSE [cleared EXCEPT !.pc = "done", !.response = Response(q.files, results)]

\* variant: the error reaches the catch clause of the handler
CatchDocument_outer(q, message) ==
    [q EXCEPT !.pc = "done",
              !.response = [status |-> 500, error |-> "Failed to process documents",
                            details |-> message]]

\* the catch clause of the loop body
CatchDocument(q, message) ==
    AfterFile(q, Append(q.results,
                        [filename |-> q.files[q.i].originalname,
                         success |-> FALSE,
                         error |-> message]))

\* the entry pushed for a document that went through
SuccessEntry(file, extractedData, anomalies, predictions, recommendations, patterns) ==
    [filename |-> file.originalname,
     success |-> TRUE,
     data |-> extractedData,
     anomalies |-> anomalies,
     predictions |-> predictions,
     recommendations |-> recommendations,
     patterns |-> patterns,
     confidence |-> extractedData.confidence]

\* one awaited call of the loop body returned `value` into the local `name`
Returned(q, stage, field, value) ==
    [q EXCEPT ![field] = value,
              !.completed = @ \cup {stage},
              !.pc = StageAfter(stage)]

HandleStart(r) ==
    /\ reqs[r].pc = "start"
    /\ reqs' = [reqs EXCEPT ![r] =
                  IF Len(reqs[r].files) = 0
                  THEN [@ EXCEPT !.pc = "done",
                                 !.response = [status |-> 400, error |-> "No files uploaded"]]
                  ELSE [@ EXCEPT !.pc = "processDocument", !.i = 1]]
    /\ UNCHANGED <<services, month, call>>

ProcessDocument(r) ==
    LET q == reqs[r]
        file == q.files[q.i]
    IN  /\ q.pc = "processDocument"
        /\ reqs' = [reqs EXCEPT ![r] =
                      IF Rejects("processDocument", file)
                      THEN CatchDocument(q, ErrorMessage("processDocument", file))
                      ELSE Returned(q, "processDocument", "extractedData",
                                    processDocument(file))]
        /\ UNCHANGED <<services, month, call>>

DetectAnomalies(r) ==
    LET q == reqs[r]
        file == q.files[q.i]
    IN  /\ q.pc = "detectAnomalies"
        /\ reqs' = [reqs EXCEPT ![r] =
                      IF Rejects("detectAnomalies", file)
                      THEN CatchDocument(q, ErrorMessage("detectAnomalies", file))
                      ELSE Returned(q, "detectAnomalies", "anomalies",
                                    detectAnomalies(q.extractedData,
                                                    anomalyDetector.thresholds))]
        /\ anomalyDetector' = detectAnomaliesThis(anomalyDetector, q.extractedData)
        /\ UNCHANGED <<predictiveAnalyzer, recommendationEngine, patternAnalyzer, month, call>>

GeneratePredictions(r) ==
    LET q == reqs[r]
        file == q.files[q.i]
    IN  /\ q.pc = "generatePredictions"
        /\ reqs' = [reqs EXCEPT ![r] =
                      IF Rejects("generatePredictions", file)
                      THEN CatchDocument(q, ErrorMessage("generatePredictions", file))
                      ELSE Returned(q, "generatePredictions", "predictions",
                                    generatePredictions(q.extractedData,
                                                        predictiveAnalyzer.seasonalFactors,
                                                        month))]
        /\ predictiveAnalyzer' = generatePredictionsThis(predictiveAnalyzer, q.extractedData)
        /\ UNCHANGED <<anomalyDetector, recommendationEngine, patternAnalyzer, month, call>>

GenerateRecommendations(r) ==
    LET q == reqs[r]
        file == q.files[q.i]
    IN  /\ q.pc = "generateRecommendations"
        /\ reqs' = [reqs EXCEPT ![r] =
                      IF Rejects("generateRecommendations", file)
                      THEN CatchDocument(q, ErrorMessage("generateRecommendations", file))
                      ELSE Returned(q, "generateRecommendations", "recommendations",
                                    generateRecommendations(q.extractedData, q.anomalies,
                                                            q.predictions))]
        /\ recommendationEngine' =
              generateRecommendationsThis(recommendationEngine, q.extractedData,
                                          q.anomalies, q.predictions)
        /\ UNCHANGED <<anomalyDetector, predictiveAnalyzer, patternAnalyzer, month, call>>

AnalyzePatterns(r) ==
    LET q == reqs[r]
        file == q.files[q.i]
    IN  /\ q.pc = "analyzePatterns"
        /\ \E draws \in RandomDraws :
              reqs' = [reqs EXCEPT ![r] =
                  IF Rejects("analyzePatterns", file)
                  THEN CatchDocument(q, ErrorMessage("analyzePatterns", file))
                  ELSE AfterFile(q, Append(q.results,
                          SuccessEntry(file, q.extractedData, q.anomalies, q.predictions,
                                       q.recommendations,
                                       analyzePatterns(q.extractedData, month, draws))))]
        /\ patternAnalyzer' = analyzePatternsThis(patternAnalyzer, q.extractedData)
        /\ UNCHANGED <<anomalyDetector, predictiveAnalyzer, recommendationEngine, month, call>>

Next ==
    \/ \E r \in DOMAIN reqs : HandleStart(r)
    \/ \E r \in DOMAIN reqs : ProcessDocument(r)
    \/ \E r \in DOMAIN reqs : DetectAnomalies(r)
    \/ \E r \in DOMAIN reqs : GeneratePredictions(r)
    \/ \E r \in DOMAIN reqs : GenerateRecommendations(r)
    \/ \E r \in DOMAIN reqs : AnalyzePatterns(r)

HandlerMonths == {1, 9}

NoCall == [op |-> "none"]

\* one upload of up to MaxFiles documents
Init ==
    /\ InitServices
    /\ month \in HandlerMonths
    /\ reqs \in {<<Request(fs)>> : fs \in SeqsUpTo(Files, MaxFiles)}
    /\ call = NoCall

Spec == Init /\ [][Next]_vars

\* NumRequests uploads of at most one document each, in flight together
InitConcurrent ==
    /\ InitServices
    /\ month \in HandlerMonths
    /\ reqs \in [1..NumRequests -> {Request(fs) : fs \in SeqsUpTo(ConcurrentFiles, 1)}]
    /\ call = NoCall

SpecConcurrent == InitConcurrent /\ [][Next]_vars

-----------------------------------------------------------------------------
(* Direct invocation of the detector on an arbitrary bill record           *)

IdleCall(b) == [op |-> "idle", billData |-> b, anomalies |-> << >>]

InitDetect ==
    /\ InitServices
    /\ month = 0
    /\ reqs = << >>
    /\ call \in {IdleCall(b) : b \in BillRecords}

DetectAnomaliesCall ==
    /\ call.op = "idle"
    /\ call' = [call EXCEPT !.op = "detectAnomalies",
                            !.anomalies = detectAnomalies(call.billData,
                                                          anomalyDetector.thresholds)]
    /\ anomalyDetector' = detectAnomaliesThis(anomalyDetector, call.billData)
    /\ UNCHANGED <<predictiveAnalyzer, recommendationEngine, patternAnalyzer, month, reqs>>

NextDetect == DetectAnomaliesCall

SpecDetect == InitDetect /\ [][NextDetect]_vars

-----------------------------------------------------------------------------
(* Direct invocation of generateRecommendations: on the anomalies and the  *)
(* predictions of a bill record (the chain of the handler), or on a list   *)
(* of anomalies the caller supplies, with or without predictions.          *)

MaxAnomalies == 2      \* length of a supplied list of anomalies

RecommendComparisons ==
    {NoComparisons,
     [present |-> TRUE, previousMonth |-> NoPreviousMonth],
     [present |-> TRUE,
      previousMonth |-> [present |-> TRUE, usage |-> 847, amount |-> 10000]]}

RecommendBills ==
    {BillRecord(k, t, a, c) :
        k \in {0, 950, 1000, 1050, 1100, 1200},
        t \in {0, 4, 5, 6},
        a \in {0, 10000, 12500, 14000, 15000},
        c \in RecommendComparisons}

\* the elements of a sequence
Range(s) == {s[k] : k \in DOMAIN s}

\* the anomalies the detector reports for these records
AnomalyPool ==
    UNION {Range(detectAnomalies(b, InitThresholds)) : b \in RecommendBills}

\* the records a supplied list of anomalies comes with
SuppliedBills ==
    {BillRecord(1200, 5, 15000, NoComparisons), BillRecord(950, 0, 10000, NoComparisons)}

ChainCall(b) ==
    [op |-> "idle", chain |-> TRUE, billData |-> b, anomalies |-> << >>,
     predictions |-> Undefined]

SuppliedCall(b, anomalies) ==
    [op |-> "detectAnomalies", chain |-> FALSE, billData |-> b, anomalies |-> anomalies,
     predictions |-> Undefined]

InitRecommend ==
    /\ InitServices
    /\ month \in HandlerMonths
    /\ reqs = << >>
    /\ call \in {ChainCall(b) : b \in RecommendBills} \cup
                {SuppliedCall(b, as) :
                    b \in SuppliedBills, as \in SeqsUpTo(AnomalyPool, MaxAnomalies)}

\* anomalies = await anomalyDetector.detectAnomalies(extractedData)
DetectForRecommend ==
    /\ call.op = "idle"
    /\ call' = [call EXCEPT !.op = "detectAnomalies",
                            !.anomalies = detectAnomalies(call.billData,
                                                          anomalyDetector.thresholds)]
    /\ anomalyDetector' = detectAnomaliesThis(anomalyDetector, call.billData)
    /\ UNCHANGED <<predictiveAnalyzer, recommendationEngine, patternAnalyzer, month, reqs>>

\* predictions = await predictiveAnalyzer.generatePredictions(extractedData)
PredictForRecommend ==
    /\ call.op = "detectAnomalies"
    /\ call' = [call EXCEPT !.op = "generatePredictions",
                            !.predictions =
                                generatePredictions(call.billData,
                                                    predictiveAnalyzer.seasonalFactors,
                                                    month)]
    /\ predictiveAnalyzer' = generatePredictionsThis(predictiveAnalyzer, call.billData)
    /\ UNCHANGED <<anomalyDetector, recommendationEngine, patternAnalyzer, month, reqs>>

\* a caller that has no predictions passes undefined
OmitPredictions ==
    /\ call.op = "detectAnomalies"
    /\ ~call.chain
    /\ call' = [call EXCEPT !.op = "generatePredictions"]
    /\ UNCHANGED <<services, month, reqs>>

GenerateRecommendationsCall ==
    /\ call.op = "generatePredictions"
    /\ call' = [op |-> "generateRecommendations",
                chain |-> call.chain,
                billData |-> call.billData,
                anomalies |-> call.anomalies,
                predictions |-> call.predictions,
                recommendations |->
                    generateRecommendations(call.billData, call.anomalies,
                                            call.predictions)]
    /\ recommendationEngine' =
          generateRecommendationsThis(recommendationEngine, call.billData,
                                      call.anomalies, call.predictions)
    /\ UNCHANGED <<anomalyDetector, predictiveAnalyzer, patternAnalyzer, month, reqs>>

NextRecommend ==
    \/ DetectForRecommend
    \/ PredictForRecommend
    \/ OmitPredictions
    \/ GenerateRecommendationsCall

SpecRecommend == InitRecommend /\ [][NextRecommend]_vars

-----------------------------------------------------------------------------
(* generateRecommendations on a Prediction the caller supplies, whose       *)
(* nextMonth.amount is any number (cents)                                   *)

SuppliedPredictions ==
    {[generatePredictions(b, InitSeasonalFactors, m) EXCEPT !.nextMonth.amount = a] :
        b \in SuppliedBills, m \in HandlerMonths,
        a \in {-1000000, -100000, -5100, -110, -100, -1, 0, 1, 9, 10, 11, 100, 110,
               19380, 100000, 1000000}}

InitSupplied ==
    /\ InitServices
    /\ month \in HandlerMonths
    /\ reqs = << >>
    /\ call \in {[op |-> "generatePredictions", chain |-> FALSE, billData |-> b,
                  anomalies |-> << >>, predictions |-> p] :
                    b \in SuppliedBills, p \in SuppliedPredictions}

NextSupplied == GenerateRecommendationsCall

SpecSupplied == InitSupplied /\ [][NextSupplied]_vars

-----------------------------------------------------------------------------
(* Direct invocation of generatePredictions: two invocations on the same   *)
(* bill record, the calendar advancing in between, and the pattern         *)
(* analyzer's lookup of the current season.                                *)

PredictComparisons ==
    {NoComparisons,
     [present |-> TRUE, previousMonth |-> NoPreviousMonth],
     [present |-> TRUE,
      previousMonth |-> [present |-> TRUE, usage |-> 654, amount |-> 10000]]}

PredictBills ==
    {BillRecord(k, 0, a, c) :
        k \in {0, 847, 1201}, a \in {0, 14533, 20000}, c \in PredictComparisons}

PredictCall(b) == [op |-> "idle", billData |-> b, results |-> << >>, season |-> "none"]

InitPredict ==
    /\ InitServices
    /\ month \in 0..11
    /\ reqs = << >>
    /\ call \in {PredictCall(b) : b \in PredictBills}

\* predictiveAnalyzer.generatePredictions(billData), for the first or the second time
GeneratePredictionsCall ==
    /\ call.op \in {"idle", "generatePredictions"}
    /\ Len(call.results) < 2
    /\ call' = [call EXCEPT
                  !.op = "generatePredictions",
                  !.results = Append(@,
                      [month |-> month,
                       predictions |->
                           generatePredictions(call.billData,
                                               predictiveAnalyzer.seasonalFactors,
                                               month)])]
    /\ predictiveAnalyzer' = generatePredictionsThis(predictiveAnalyzer, call.billData)
    /\ UNCHANGED <<anomalyDetector, recommendationEngine, patternAnalyzer, month, reqs>>

\* the calendar month changes between two invocations
AdvanceMonth ==
    /\ call.op \in {"idle", "generatePredictions"}
    /\ Len(call.results) < 2
    /\ month' = (month + 1) % 12
    /\ UNCHANGED <<services, reqs, call>>

\* patternAnalyzer.getSeason(new Date().getMonth())
GetSeasonCall ==
    /\ call.op \in {"idle", "generatePredictions"}
    /\ call' = [call EXCEPT !.op = "getSeason", !.season = getSeason(month)]
    /\ UNCHANGED <<services, month, reqs>>

NextPredict ==
    \/ GeneratePredictionsCall
    \/ AdvanceMonth
    \/ GetSeasonCall

SpecPredict == InitPredict /\ [][NextPredict]_vars

-----------------------------------------------------------------------------
(* DocumentProcessor: fillMissingData and validateAndEnhanceData.  A        *)
(* parsed record is a function from the keys it has to their values, so    *)
(* that a key may be absent at any level; amounts are in cents, rates in   *)
(* hundredths, demandKw in tenths.                                         *)

EmptyObject == [k \in {} |-> 0]

\* { ...base, ...over }
Spread(base, over) == over @@ base

\* object[key], {} when it is undefined (...undefined spreads nothing)
Section(object, key) == IF key \in DOMAIN object THEN object[key] ELSE EmptyObject

\* object[key] is truthy, for a numeric field
Truthy(object, key) == key \in DOMAIN object /\ object[key] # 0

\* object[key] || 0
OrZero(object, key) == IF key \in DOMAIN object THEN object[key] ELSE 0

generateMockStructuredData ==
    [accountInfo |-> [accountNumber |-> "****-****-1234",
                      customerName |-> "John Doe",
                      serviceAddress |-> "123 Main Street, City, State 12345",
                      billingAddress |-> "123 Main Street, City, State 12345"],
     billingPeriod |-> [startDate |-> "2024-01-15", endDate |-> "2024-02-14",
                        daysInPeriod |-> 30],
     charges |-> [totalAmount |-> 19000, baseCharge |-> 2499, energyCharges |-> 10164,
                  deliveryCharges |-> 1575, taxes |-> 845, fees |-> 350,
                  adjustments |-> 0],
     usage |-> [totalKwh |-> 847, peakKwh |-> 296, offPeakKwh |-> 551, demandKw |-> 85],
     rates |-> [energyRate |-> 12, peakRate |-> 18, offPeakRate |-> 9,
                demandRate |-> 1250],
     comparisons |-> [previousMonth |-> [usage |-> 654, amount |-> 14532],
                      yearAgo |-> [usage |-> 723, amount |-> 15867]]]

fillMissingData(data) ==
    LET mockData == generateMockStructuredData
    IN  [accountInfo |-> Spread(mockData.accountInfo, Section(data, "accountInfo")),
         billingPeriod |-> Spread(mockData.billingPeriod, Section(data, "billingPeriod")),
         charges |-> Spread(mockData.charges, Section(data, "charges")),
         usage |-> Spread(mockData.usage, Section(data, "usage")),
         rates |-> Spread(mockData.rates, Section(data, "rates")),
         comparisons |-> Spread(mockData.comparisons, Section(data, "comparisons"))]

\* the argument after fillMissingData(data): the method assigns nothing in it
fillMissingDataArgument(data) == data

\* (baseCharge || 0) + (energyCharges || 0) + (deliveryCharges || 0) +
\* (taxes || 0) + (fees || 0)
calculatedTotal(charges) ==
    OrZero(charges, "baseCharge") + OrZero(charges, "energyCharges") +
    OrZero(charges, "deliveryCharges") + OrZero(charges, "taxes") +
    OrZero(charges, "fees")

DiscrepancyWarning == "Total amount calculation discrepancy detected"

validateAndEnhanceData(data) ==
    LET ensured ==
            Spread([accountInfo |-> EmptyObject, charges |-> EmptyObject,
                    usage |-> EmptyObject, billingPeriod |-> EmptyObject], data)
        withRates ==
            IF Truthy(ensured.usage, "totalKwh") /\ Truthy(ensured.charges, "energyCharges")
            THEN Spread(ensured,
                        [rates |-> [energyRate |-> Frac(ensured.charges.energyCharges,
                                                        ensured.usage.totalKwh)]])
            ELSE ensured
    IN  IF /\ Truthy(withRates.charges, "totalAmount")
           /\ Abs(calculatedTotal(withRates.charges) - withRates.charges.totalAmount) > 500
        THEN Spread(withRates, [validationWarnings |-> <<DiscrepancyWarning>>])
        ELSE withRates

\* the argument after validateAndEnhanceData(data): the method works on a copy
validateAndEnhanceDataArgument(data) == data

\* an object with one key
Field(key, value) == [k \in {key} |-> value]

\* a total with sub-charges whose sum is off by `off`, `adjustments` of them
\* booked as adjustments
ChargesOff(total, off, adjustments) ==
    [totalAmount |-> total, baseCharge |-> 2500,
     energyCharges |-> total - 2500 - off - adjustments,
     deliveryCharges |-> 0, taxes |-> 0, fees |-> 0, adjustments |-> adjustments]

ChargesOptions ==
    {EmptyObject, Field("totalAmount", 20000), Field("baseCharge", 3000)} \cup
    {ChargesOff(19000, off, a) : off \in {-501, -500, 0, 500, 501}, a \in {0, 1000}} \cup
    {ChargesOff(0, -3000, 0)}

UsageOptions == {EmptyObject, Field("totalKwh", 1200), Field("totalKwh", 0)}

RatesOptions ==
    {Field("energyRate", 15), [energyRate |-> 15, peakRate |-> 20]}

ComparisonsOptions ==
    {EmptyObject,
     Field("previousMonth", Field("usage", 700)),
     Field("previousMonth", [usage |-> 700, amount |-> 15000])}

AccountInfoOptions == {Field("accountNumber", "1234-5678")}

BillingPeriodOptions == {[startDate |-> "2024-03-01", endDate |-> "2024-03-31"]}

\* nothing, or the object under the key
Optional(key, options) == {EmptyObject} \cup {Field(key, o) : o \in options}

\* what parseWithRegex hands to fillMissingData, or what the AI parse returns
PartialRecords ==
    {Spread(Spread(Spread(Spread(Spread(a, b), c), u), r), m) :
        a \in Optional("accountInfo", AccountInfoOptions),
        b \in Optional("billingPeriod", BillingPeriodOptions),
        c \in Optional("charges", ChargesOptions),
        u \in Optional("usage", UsageOptions),
        r \in Optional("rates", RatesOptions),
        m \in Optional("comparisons", ComparisonsOptions)}

NormalizeCall(data) ==
    [op |-> "idle", original |-> data, data |-> data, validated |-> EmptyObject]

InitNormalize ==
    /\ InitServices
    /\ month = 0
    /\ reqs = << >>
    /\ call \in {NormalizeCall(d) : d \in PartialRecords}

\* parseWithRegex: return this.fillMissingData(extractedData)
FillMissingDataCall ==
    /\ call.op = "idle"
    /\ call' = [op |-> "fillMissingData",
                original |-> call.original,
                data |-> fillMissingDataArgument(call.data),
                filled |-> fillMissingData(call.data),
                validated |-> EmptyObject]
    /\ UNCHANGED <<services, month, reqs>>

\* processDocument: validatedData = await this.validateAndEnhanceData(structuredData),
\* on the filled record of the regular-expression parse
ValidateFilledCall ==
    /\ call.op = "fillMissingData"
    /\ call' = [call EXCEPT !.op = "validateAndEnhanceData",
                            !.filled = validateAndEnhanceDataArgument(call.filled),
                            !.validated = validateAndEnhanceData(call.filled)]
    /\ UNCHANGED <<services, month, reqs>>

\* the same on the record the AI parse returned as it is
ValidateParsedCall ==
    /\ call.op = "idle"
    /\ call' = [call EXCEPT !.op = "validateAndEnhanceData",
                            !.data = validateAndEnhanceDataArgument(call.data),
                            !.validated = validateAndEnhanceData(call.data)]
    /\ UNCHANGED <<services, month, reqs>>

\* the closing line of generateMockText, which every fallback text carries
MockText == "Mock Bill Data - Generated for demonstration purposes"

\* what extractText returns: the text of the document, or the mock text
ExtractedTexts == {"ACME POWER Account Number: 1234-5678", MockText}

\* object[key] is truthy, for a text field
TruthyText(object, key) == key \in DOMAIN object /\ object[key] # ""

\* variant: no penalty for mock text
MockDataPenalty_none(rawText) == 0

\* if (rawText.includes('Mock Bill Data')) confidence -= 0.3, in hundredths
MockDataPenalty(rawText) == IF rawText = MockText THEN 30 ELSE 0

\* the confidence in hundredths
calculateConfidence(data, rawText) ==
    LET confidence ==
            50
            + (IF TruthyText(Section(data, "accountInfo"), "accountNumber") THEN 10 ELSE 0)
            + (IF Truthy(Section(data, "charges"), "totalAmount") THEN 10 ELSE 0)
            + (IF Truthy(Section(data, "usage"), "totalKwh") THEN 10 ELSE 0)
            + (IF TruthyText(Section(data, "billingPeriod"), "startDate") THEN 10 ELSE 0)
            - MockDataPenalty(rawText)
            + (IF \/ "validationWarnings" \notin DOMAIN data
                  \/ Len(data.validationWarnings) = 0
               THEN 10 ELSE 0)
        capped == IF confidence < 100 THEN confidence ELSE 100
    IN  IF capped > 10 THEN capped ELSE 10

\* variant: the warnings of the record that comes in are kept and the new
\* one is pushed after them
validateAndScore_pushWarning(structuredData, extractedText) ==
    LET validatedData == validateAndEnhanceData(structuredData)
        before == IF "validationWarnings" \in DOMAIN structuredData
                  THEN structuredData.validationWarnings ELSE << >>
        pushed == IF /\ "validationWarnings" \in DOMAIN validatedData
                     /\ "validationWarnings" \in DOMAIN structuredData
                  THEN Spread(validatedData,
                              [validationWarnings |-> before \o <<DiscrepancyWarning>>])
                  ELSE validatedData
    IN  Spread(pushed,
               [confidence |-> calculateConfidence(pushed, extractedText),
                rawText |-> extractedText])

\* processDocument from the structured data on: validate, score, and return
\* { ...validatedData, confidence, rawText }; fileName, fileSize and
\* processingDate are copied from the file and the clock
validateAndScore(structuredData, extractedText) ==
    LET validatedData == validateAndEnhanceData(structuredData)
    IN  Spread(validatedData,
               [confidence |-> calculateConfidence(validatedData, extractedText),
                rawText |-> extractedText])

\* parseStructuredData and the rest of processDocument: the AI parse returns
\* the record as it is, the regular-expression parse fills it
parseAndProcess(data, extractedText, openai) ==
    validateAndScore(IF openai THEN data ELSE fillMissingData(data), extractedText)

\* validationWarnings of a record handed to calculateConfidence directly
WarningsOptions == {EmptyObject, Field("validationWarnings", << >>),
                    Field("validationWarnings", <<DiscrepancyWarning>>)}

\* calculateConfidence(data, rawText) on a record as it is
CalculateConfidenceCall ==
    /\ call.op = "idle"
    /\ \E w \in WarningsOptions, rawText \in ExtractedTexts :
          call' = [op |-> "calculateConfidence",
                   original |-> call.original,
                   data |-> Spread(call.data, w),
                   rawText |-> rawText,
                   confidence |-> calculateConfidence(Spread(call.data, w), rawText),
                   validated |-> EmptyObject]
    /\ UNCHANGED <<services, month, reqs>>

\* processDocument on the parsed record, with or without an OpenAI client
ProcessDocumentCall ==
    /\ call.op = "idle"
    /\ \E rawText \in ExtractedTexts, openai \in BOOLEAN :
          call' = [op |-> "processDocument",
                   original |-> call.original,
                   data |-> call.data,
                   rawText |-> rawText,
                   openai |-> openai,
                   processed |-> parseAndProcess(call.data, rawText, openai),
                   validated |-> EmptyObject]
    /\ UNCHANGED <<services, month, reqs>>

\* the record processDocument returned is processed once more, with the same
\* text and the same parser
ProcessAgainCall ==
    /\ call.op = "processDocument"
    /\ call' = [call EXCEPT !.op = "processedAgain"] @@
               [again |-> parseAndProcess(call.processed, call.rawText, call.openai)]
    /\ UNCHANGED <<services, month, reqs>>

NextNormalize ==
    \/ FillMissingDataCall
    \/ ValidateFilledCall
    \/ ValidateParsedCall
    \/ CalculateConfidenceCall
    \/ ProcessDocumentCall
    \/ ProcessAgainCall

SpecNormalize == InitNormalize /\ [][NextNormalize]_vars

-----------------------------------------------------------------------------
(* Direct invocation of the pattern analyzer's usage, cost and efficiency   *)
(* computations.  A quotient with denominator 0 stands for what JavaScript  *)
(* returns for it: NaN when the numerator is 0 too, Infinity otherwise.     *)

\* billData.charges.totalAmount / billData.usage.totalKwh, in cents per kWh
calculateEfficiency(billData) ==
    Frac(billData.charges.totalAmount, billData.usage.totalKwh)

\* the usage block: the one of analyzePatterns with dailyAverage, efficiency,
\* trend and recommendations
analyzeUsagePatterns(billData) ==
    LET usage == billData.usage.totalKwh
        peakUsage == billData.usage.peakKwh
        previousMonth == billData.comparisons.previousMonth
    IN  analyzePatterns(billData, 0, <<0, 0>>).usage @@
        [dailyAverage |-> Frac(usage, 30),
         efficiency |-> calculateEfficiency(billData),
         trend |-> IF billData.comparisons.present /\ previousMonth.present
                   THEN PctChange(usage, previousMonth.usage)
                   ELSE Frac(0, 1),
         recommendations |->
            (IF usage > 1200 THEN <<"Consider energy audit for high usage">> ELSE << >>) \o
            (IF FracGt(Frac(peakUsage * 10, usage), 4)
             THEN <<"Shift usage to off-peak hours">> ELSE << >>)]

\* rateAnalysis of analyzeCostPatterns, in cents per kWh; the records carry
\* no rates, so that peakRate and offPeakRate are 0
rateAnalysis(billData) ==
    [averageRate |-> Frac(billData.charges.energyCharges, billData.usage.totalKwh),
     peakRate |-> 0,
     offPeakRate |-> 0,
     effectiveRate |-> Frac(billData.charges.totalAmount, billData.usage.totalKwh)]

\* Math.round(Math.max(0, Math.min(100, (0.13 - efficiency) / 0.13 * 100))):
\* NaN for an efficiency of NaN, 0 for an infinite one
calculateEfficiencyScore(billData) ==
    LET efficiency == calculateEfficiency(billData)
        score == Frac((13 * efficiency.den - efficiency.num) * 100, 13 * efficiency.den)
    IN  IF efficiency.den = 0
        THEN (IF efficiency.num = 0 THEN Frac(0, 0) ELSE Frac(0, 1))
        ELSE IF score.num < 0 THEN Frac(0, 1)
        ELSE IF score.num > 100 * score.den THEN Frac(100, 1)
        ELSE Frac(Round(score), 1)

PatternBills ==
    {[BillRecord(k, t, a, c) EXCEPT !.charges = [totalAmount |-> a, energyCharges |-> e]] :
        k \in {0, 500, 847, 1300}, t \in {0, 3, 5}, a \in {0, 2499, 11000, 19000},
        e \in {0, 6000},
        c \in {NoComparisons,
               [present |-> TRUE,
                previousMonth |-> [present |-> TRUE, usage |-> 1000, amount |-> 10000]]}}

InitPatterns ==
    /\ InitServices
    /\ month = 0
    /\ reqs = << >>
    /\ call \in {[op |-> "idle", billData |-> b] : b \in PatternBills}

AnalyzeUsagePatternsCall ==
    /\ call.op = "idle"
    /\ call' = [op |-> "analyzeUsagePatterns", billData |-> call.billData,
                usage |-> analyzeUsagePatterns(call.billData)]
    /\ UNCHANGED <<services, month, reqs>>

AnalyzeCostPatternsCall ==
    /\ call.op = "idle"
    /\ call' = [op |-> "analyzeCostPatterns", billData |-> call.billData,
                rateAnalysis |-> rateAnalysis(call.billData)]
    /\ UNCHANGED <<services, month, reqs>>

CalculateEfficiencyScoreCall ==
    /\ call.op = "idle"
    /\ call' = [op |-> "calculateEfficiencyScore", billData |-> call.billData,
                score |-> calculateEfficiencyScore(call.billData)]
    /\ UNCHANGED <<services, month, reqs>>

NextPatterns ==
    \/ AnalyzeUsagePatternsCall
    \/ AnalyzeCostPatternsCall
    \/ CalculateEfficiencyScoreCall

SpecPatterns == InitPatterns /\ [][NextPatterns]_vars

-----------------------------------------------------------------------------
(* PatternAnalyzer.generateComparativeAnalysis.  Usage benchmarks are in    *)
(* kWh, cost benchmarks and rates in cents per kWh, savings in cents.       *)

\* variant: the regional figures stand in for the national ones outside
\* the default region
getBenchmarksForComparison_byRegion(region, homeType, occupancy) ==
    [usage |-> [national |-> IF region = "national" THEN 877 ELSE 950,
                regional |-> 950, similar |-> 820],
     cost |-> [national |-> 13, regional |-> 12, similar |-> 11],
     efficiency |-> [national |-> 85, regional |-> 82, similar |-> 88]]

getBenchmarksForComparison(region, homeType, occupancy) ==
    [usage |-> [national |-> 877, regional |-> 950, similar |-> 820],
     cost |-> [national |-> 13, regional |-> 12, similar |-> 11],
     efficiency |-> [national |-> 85, regional |-> 82, similar |-> 88]]

calculateComparisonMetrics(userBillData, benchmarks) ==
    LET userUsage == userBillData.usage.totalKwh
        userCost == userBillData.charges.totalAmount
        \* ((userRate - benchmark) / benchmark) * 100, userRate = userCost / userUsage
        RateVs(benchmark) ==
            Frac((userCost - benchmark * userUsage) * 100, benchmark * userUsage)
    IN  [usage |-> [value |-> userUsage,
                    vs_national |-> PctChange(userUsage, benchmarks.usage.national),
                    vs_regional |-> PctChange(userUsage, benchmarks.usage.regional),
                    vs_similar |-> PctChange(userUsage, benchmarks.usage.similar)],
         cost |-> [value |-> userCost,
                   rate |-> Frac(userCost, userUsage),
                   vs_national |-> RateVs(benchmarks.cost.national),
                   vs_regional |-> RateVs(benchmarks.cost.regional),
                   vs_similar |-> RateVs(benchmarks.cost.similar)]]

\* ratio = value / benchmark, with value a fraction; every comparison with
\* NaN or Infinity fails
calculatePercentile(value, benchmark) ==
    LET ratio == Frac(value.num, value.den * benchmark)
    IN  IF ratio.den = 0 THEN 90
        ELSE IF ratio.num * 10 < 8 * ratio.den THEN 25
        ELSE IF ratio.num < ratio.den THEN 50
        ELSE IF ratio.num * 10 < 13 * ratio.den THEN 75
        ELSE 90

getPercentileRank(percentile) ==
    IF percentile <= 25 THEN "excellent"
    ELSE IF percentile <= 50 THEN "good"
    ELSE IF percentile <= 75 THEN "average"
    ELSE "needs_improvement"

calculateRanking(metrics, benchmarks) ==
    LET usagePercentile ==
            calculatePercentile(Frac(metrics.usage.value, 1), benchmarks.usage.national)
        costPercentile == calculatePercentile(metrics.cost.rate, benchmarks.cost.national)
    IN  [usage |-> [percentile |-> usagePercentile,
                    rank |-> getPercentileRank(usagePercentile)],
         cost |-> [percentile |-> costPercentile,
                   rank |-> getPercentileRank(costPercentile)],
         overall |-> [percentile |-> Frac(usagePercentile + costPercentile, 2)]]

generateComparisonInsights(metrics, ranking) ==
    (IF FracGt(metrics.usage.vs_national, 20)
     THEN <<"Your usage is significantly higher than national average">> ELSE << >>) \o
    (IF FracGt(metrics.cost.vs_similar, 15)
     THEN <<"Your cost per kWh is higher than similar homes">> ELSE << >>) \o
    (IF FracGt(ranking.overall.percentile, 75)
     THEN <<"Overall energy efficiency needs improvement">> ELSE << >>)

identifyImprovementOpportunities(metrics, benchmarks) ==
    (IF FracGt(metrics.usage.vs_national, 15)
     THEN <<[type |-> "usage_reduction", potential |-> "high",
             description |-> "Reduce overall energy consumption",
             savings |-> Frac(metrics.usage.value * 15 * benchmarks.cost.national, 100)]>>
     ELSE << >>) \o
    (IF FracGt(metrics.cost.vs_similar, 10)
     THEN <<[type |-> "rate_optimization", potential |-> "medium",
             description |-> "Optimize rate plan or supplier",
             savings |-> Frac(metrics.cost.value, 10)]>>
     ELSE << >>)

\* options[key], the default when the caller leaves it out
OptionOr(options, key, default) ==
    IF key \in DOMAIN options THEN options[key] ELSE default

generateComparativeAnalysis(options) ==
    LET benchmarks ==
            getBenchmarksForComparison(OptionOr(options, "region", "national"),
                                       OptionOr(options, "homeType", "average"),
                                       OptionOr(options, "occupancy", "average"))
        metrics == calculateComparisonMetrics(options.userBillData, benchmarks)
        ranking == calculateRanking(metrics, benchmarks)
    IN  [metrics |-> metrics,
         ranking |-> ranking,
         insights |-> generateComparisonInsights(metrics, ranking),
         opportunities |-> identifyImprovementOpportunities(metrics, benchmarks),
         benchmarks |-> benchmarks]

\* region, homeType and occupancy as the caller passes them, each of them
\* possibly left out
ComparisonTriples ==
    {Spread(Spread(r, h), o) :
        r \in {EmptyObject, Field("region", "northeast")},
        h \in {EmptyObject, Field("homeType", "apartment")},
        o \in {EmptyObject, Field("occupancy", "family")}}

InitCompare ==
    /\ InitServices
    /\ month = 0
    /\ reqs = << >>
    /\ call \in {[op |-> "idle", userBillData |-> b, results |-> << >>] :
                    b \in PatternBills}

\* one more invocation on the same record, with a triple of its own
GenerateComparativeAnalysisCall ==
    /\ Len(call.results) < 2
    /\ \E triple \in ComparisonTriples :
          LET options == Spread(Field("userBillData", call.userBillData), triple)
          IN  call' = [op |-> "generateComparativeAnalysis",
                       userBillData |-> call.userBillData,
                       results |-> Append(call.results,
                                          [options |-> options,
                                           comparison |-> generateComparativeAnalysis(options)])]
    /\ UNCHANGED <<services, month, reqs>>

NextCompare == GenerateComparativeAnalysisCall

SpecCompare == InitCompare /\ [][NextCompare]_vars

-----------------------------------------------------------------------------
(* RecommendationEngine.generateOptimizationPlan.  Costs and the budget are *)
(* in dollars, the bill total in cents, the savings of an action a fraction *)
(* of it: Frac(cents * percent, 100) cents.                                 *)

\* billData.charges?.totalAmount * share || 0, for a share in percent
SavingsShare(billData, percent) ==
    Frac(OrZero(Section(billData, "charges"), "totalAmount") * percent, 100)

generateImmediateActions(billData) ==
    <<[title |-> "Adjust Thermostat Settings", cost |-> 0,
       savings |-> SavingsShare(billData, 5), timeframe |-> "1 day"],
      [title |-> "Unplug Unused Devices", cost |-> 0,
       savings |-> SavingsShare(billData, 3), timeframe |-> "1 day"]>>

generateLongTermStrategy(billData, constraints) ==
    (IF ~Truthy(constraints, "budget") \/ constraints.budget > 500
     THEN <<[title |-> "LED Lighting Conversion", cost |-> 200,
             savings |-> SavingsShare(billData, 8), timeframe |-> "1 month"]>>
     ELSE << >>) \o
    (IF ~Truthy(constraints, "budget") \/ constraints.budget > 2000
     THEN <<[title |-> "Energy-Efficient Appliances", cost |-> 2000,
             savings |-> SavingsShare(billData, 20), timeframe |-> "6 months"]>>
     ELSE << >>)

\* actions.reduce((sum, action) => sum + (action.savings || 0), 0), the
\* numerator over 100
RECURSIVE SumSavings(_)
SumSavings(actions) ==
    IF actions = << >> THEN 0 ELSE Head(actions).savings.num + SumSavings(Tail(actions))

\* actions.reduce((sum, action) => sum + (action.cost || 0), 0)
RECURSIVE SumCost(_)
SumCost(actions) ==
    IF actions = << >> THEN 0 ELSE Head(actions).cost + SumCost(Tail(actions))

calculateTotalSavings(immediate, longTerm, currentCost) ==
    LET immediateSavings == SumSavings(immediate)
        longTermSavings == SumSavings(longTerm)
    IN  [total |-> Frac(immediateSavings + longTermSavings, 100),
         breakdown |->
            [immediate |-> Frac(immediateSavings, 100),
             longTerm |-> Frac(longTermSavings, 100),
             percentage |-> Frac(immediateSavings + longTermSavings, currentCost)]]

createImplementationPlan(immediate, longTerm) ==
    [phases |->
        <<[name |-> "Phase 1: Immediate Actions", duration |-> "1 week",
           actions |-> immediate, priority |-> "high"],
          [name |-> "Phase 2: Short-term Improvements", duration |-> "1-3 months",
           actions |-> SelectSeq(longTerm, LAMBDA action : action.cost < 500),
           priority |-> "medium"],
          [name |-> "Phase 3: Long-term Investments", duration |-> "3-12 months",
           actions |-> SelectSeq(longTerm, LAMBDA action : action.cost >= 500),
           priority |-> "low"]>>,
     timeline |-> "12 months",
     totalActions |-> Len(immediate) + Len(longTerm)]

\* roi = action.savings / (action.cost || 1) > tenths / 10, the savings
\* being cents and the cost dollars
RoiAbove(action, tenths) ==
    action.savings.num * 10 >
        tenths * action.savings.den * 100 * (IF action.cost = 0 THEN 1 ELSE action.cost)

\* variant: the return on investment alone decides
ActionPriority_roiOnly(action) ==
    IF RoiAbove(action, 5) THEN "high"
    ELSE IF RoiAbove(action, 2) THEN "medium"
    ELSE "low"

\* the list prioritizeActions pushes the action to
ActionPriority(action) ==
    IF RoiAbove(action, 5) \/ action.cost = 0 THEN "high"
    ELSE IF RoiAbove(action, 2) THEN "medium"
    ELSE "low"

prioritizeActions(actions) ==
    [high |-> SelectSeq(actions, LAMBDA action : ActionPriority(action) = "high"),
     medium |-> SelectSeq(actions, LAMBDA action : ActionPriority(action) = "medium"),
     low |-> SelectSeq(actions, LAMBDA action : ActionPriority(action) = "low")]

\* no title has 'Smart' or 'Technology' in it: the budget risk alone
assessImplementationRisks(plan) ==
    IF SumCost(plan.immediate \o plan.longTerm) > 1000
    THEN <<[type |-> "budget", level |-> "medium",
            description |-> "High upfront investment required",
            mitigation |-> "Consider phased implementation"]>>
    ELSE << >>

generateOptimizationPlan(options) ==
    LET billData == options.billData
        constraints == Section(options, "constraints")
        currentCost == OrZero(Section(billData, "charges"), "totalAmount")
        immediate == generateImmediateActions(billData)
        longTerm == generateLongTermStrategy(billData, constraints)
        plan == [immediate |-> immediate,
                 longTerm |-> longTerm,
                 savings |-> calculateTotalSavings(immediate, longTerm, currentCost),
                 implementation |-> createImplementationPlan(immediate, longTerm),
                 prioritization |-> prioritizeActions(immediate \o longTerm)]
    IN  plan @@ [risks |-> assessImplementationRisks(plan)]

\* bill totals in cents on both sides of the returns 0.2 and 0.5 of the two
\* long-term actions, and budgets in dollars around 500 and 2000
PlanOptions ==
    {Spread(Field("billData", b), c) :
        b \in {EmptyObject} \cup
              {Field("charges", Field("totalAmount", a)) :
                  a \in {0, 19000, 50000, 50001, 125000, 125001, 200000, 200001,
                         500000, 500001, 600000}},
        c \in {EmptyObject, Field("constraints", EmptyObject)} \cup
              {Field("constraints", Field("budget", g)) :
                  g \in {0, 100, 200, 500, 501, 2000, 2001, 2100, 2200, 3000}}}

InitPlan ==
    /\ InitServices
    /\ month = 0
    /\ reqs = << >>
    /\ call \in {[op |-> "idle", options |-> o] : o \in PlanOptions}

GenerateOptimizationPlanCall ==
    /\ call.op = "idle"
    /\ call' = [op |-> "generateOptimizationPlan", options |-> call.options,
                plan |-> generateOptimizationPlan(call.options)]
    /\ UNCHANGED <<services, month, reqs>>

NextPlan == GenerateOptimizationPlanCall

SpecPlan == InitPlan /\ [][NextPlan]_vars

-----------------------------------------------------------------------------
(* PaymentService: the list of payment methods.  Of a method the model     *)
(* keeps id, type and isDefault; brand, bank, last4, holder and expiry are *)
(* display data.  Date.now() is the field `now` of the state.              *)

MaxSavedMethods == 1   \* methods added by savePaymentMethod and still listed
MaxClock == 1          \* Date.now() ranges over 0 .. MaxClock

\* this.paymentMethods after the constructor
InitPaymentMethods ==
    <<[id |-> "visa-4532", type |-> "card", isDefault |-> TRUE],
      [id |-> "mastercard-8901", type |-> "card", isDefault |-> FALSE],
      [id |-> "amex-1234", type |-> "card", isDefault |-> FALSE],
      [id |-> "chase-5678", type |-> "bank", isDefault |-> FALSE],
      [id |-> "bofa-9012", type |-> "bank", isDefault |-> FALSE],
      [id |-> "wells-3456", type |-> "bank", isDefault |-> FALSE]>>

\* the ids a caller may pass: those of the listed methods and one of no method
MethodIds(paymentMethods) ==
    {paymentMethods[k].id : k \in DOMAIN paymentMethods} \cup {"paypal-0000"}

\* the method savePaymentMethod builds from a filled form
newMethod(paymentType, now) ==
    IF paymentType = "card"
    THEN [id |-> "card-" \o ToString(now), type |-> "card", isDefault |-> FALSE]
    ELSE [id |-> "bank-" \o ToString(now), type |-> "bank", isDefault |-> FALSE]

\* this.paymentMethods after setDefaultPaymentMethod(methodId)
setDefaultPaymentMethod(paymentMethods, methodId) ==
    [k \in DOMAIN paymentMethods |->
        [paymentMethods[k] EXCEPT !.isDefault = (paymentMethods[k].id = methodId)]]

\* this.paymentMethods.find(m => m.id === methodId) is a default method
FindsDefault(paymentMethods, methodId) ==
    \E k \in DOMAIN paymentMethods :
        /\ paymentMethods[k].id = methodId
        /\ \A j \in 1..(k - 1) : paymentMethods[j].id # methodId
        /\ paymentMethods[k].isDefault

\* this.paymentMethods after removePaymentMethod(methodId)
removePaymentMethod(paymentMethods, methodId) ==
    IF FindsDefault(paymentMethods, methodId) THEN paymentMethods
    ELSE SelectSeq(paymentMethods, LAMBDA m : m.id # methodId)

InitMethods ==
    /\ InitServices
    /\ month = 0
    /\ reqs = << >>
    /\ call = [op |-> "constructor", paymentMethods |-> InitPaymentMethods, now |-> 0]

\* the clock moves on between two handlers
ClockTick ==
    /\ call.now < MaxClock
    /\ call' = [call EXCEPT !.op = "tick", !.now = call.now + 1]
    /\ UNCHANGED <<services, month, reqs>>

\* savePaymentMethod with a form of either type, filled or not
SavePaymentMethod ==
    /\ Cardinality({k \in DOMAIN call.paymentMethods :
                      \A j \in DOMAIN InitPaymentMethods :
                          call.paymentMethods[k].id # InitPaymentMethods[j].id})
          < MaxSavedMethods
    /\ \E paymentType \in {"card", "bank"}, filled \in BOOLEAN :
          call' = [call EXCEPT
                     !.op = IF filled THEN "savePaymentMethod" ELSE "savePaymentMethod: error",
                     !.paymentMethods =
                        IF filled THEN Append(@, newMethod(paymentType, call.now)) ELSE @]
    /\ UNCHANGED <<services, month, reqs>>

SetDefaultPaymentMethod ==
    /\ \E methodId \in MethodIds(call.paymentMethods) :
          call' = [call EXCEPT
                     !.op = "setDefaultPaymentMethod",
                     !.paymentMethods = setDefaultPaymentMethod(@, methodId)]
    /\ UNCHANGED <<services, month, reqs>>

RemovePaymentMethod ==
    /\ \E methodId \in MethodIds(call.paymentMethods) :
          call' = [call EXCEPT
                     !.op = IF FindsDefault(call.paymentMethods, methodId)
                            THEN "removePaymentMethod: error" ELSE "removePaymentMethod",
                     !.paymentMethods = removePaymentMethod(@, methodId)]
    /\ UNCHANGED <<services, month, reqs>>

NextMethods ==
    \/ ClockTick
    \/ SavePaymentMethod
    \/ SetDefaultPaymentMethod
    \/ RemovePaymentMethod

SpecMethods == InitMethods /\ [][NextMethods]_vars

-----------------------------------------------------------------------------
(* PaymentService.processPayment.  An id 'PAY-' + String(n).padStart(3,    *)
(* '0') is the number n; amounts are in cents.  An invocation is at its    *)
(* awaits (simulatePaymentProcessing, delay) from its start to its end:    *)
(* nothing of the instance is read or written in between.  The page is not *)
(* part of the sources: whether the element of bill '1' has the class      *)
(* 'selected' at the start is open.                                        *)

MaxInvocations == 2    \* invocations of processPayment that pass the validation

\* the bills of the page that the model selects, of '1', '2' and '3'
BillIds == {"1", "2"}

\* what the amount field holds when processPayment reads it
AmountInputs == {0, 23456}

\* this.paymentHistory after the constructor
InitPaymentHistory ==
    <<[id |-> 1, company |-> "Pacific Gas & Electric", amount |-> 23456,
       status |-> "completed"],
      [id |-> 2, company |-> "City Water Department", amount |-> 8723,
       status |-> "completed"],
      [id |-> 3, company |-> "Natural Gas Company", amount |-> 15678,
       status |-> "completed"],
      [id |-> 4, company |-> "Electric Company", amount |-> 18945,
       status |-> "completed"],
      [id |-> 5, company |-> "Internet Service", amount |-> 7999, status |-> "failed"]>>

\* variant: the id is the number of payments before this one
addPaymentToHistory_lengthAsId(paymentHistory, paymentData) ==
    <<[id |-> Len(paymentHistory), company |-> "Multiple Bills",
       amount |-> paymentData.amount, status |-> "completed"]>> \o paymentHistory

\* this.paymentHistory after addPaymentToHistory(paymentData): unshift
addPaymentToHistory(paymentHistory, paymentData) ==
    <<[id |-> Len(paymentHistory) + 1, company |-> "Multiple Bills",
       amount |-> paymentData.amount, status |-> "completed"]>> \o paymentHistory

\* amount <= 0, or no bill selected
PaymentRejected(amount, selectedBills) == amount <= 0 \/ Len(selectedBills) = 0

InitPayment ==
    /\ InitServices
    /\ month = 0
    /\ reqs = << >>
    /\ \E selectedClass \in {{}, {"1"}} :
          call = [op |-> "constructor",
                  paymentHistory |-> InitPaymentHistory,
                  selectedBills |-> <<"1">>,
                  selectedClass |-> selectedClass,
                  invocations |-> << >>]

\* toggleBillSelection(billId): the class of the element decides
ToggleBillSelection ==
    /\ \E billId \in BillIds :
          call' = [call EXCEPT
                     !.op = "toggleBillSelection",
                     !.selectedClass = IF billId \in @ THEN @ \ {billId} ELSE @ \cup {billId},
                     !.selectedBills =
                        IF billId \in call.selectedClass
                        THEN SelectSeq(@, LAMBDA id : id # billId)
                        ELSE Append(@, billId)]
    /\ UNCHANGED <<services, month, reqs>>

\* processPayment up to its first await: the validation, and for an
\* invocation that passes it the amount it read; `inFlight` notes the
\* invocations that are at their awaits
ProcessPaymentStart ==
    /\ \E amount \in AmountInputs :
          IF PaymentRejected(amount, call.selectedBills)
          THEN call' = [call EXCEPT !.op = "processPayment: error"]
          ELSE /\ Len(call.invocations) < MaxInvocations
               /\ call' = [call EXCEPT
                             !.op = "processPayment",
                             !.invocations =
                                Append(@, [pc |-> "await", amount |-> amount,
                                           inFlight |-> {k \in DOMAIN call.invocations :
                                                           call.invocations[k].pc = "await"},
                                           paymentData |-> Undefined])]
    /\ UNCHANGED <<services, month, reqs>>

\* processPayment after its awaits: paymentData, addPaymentToHistory,
\* removePaidBills
ProcessPaymentEnd ==
    /\ \E k \in DOMAIN call.invocations :
          /\ call.invocations[k].pc = "await"
          /\ LET paymentData ==
                     [present |-> TRUE,
                      id |-> Len(call.paymentHistory) + 1,
                      amount |-> call.invocations[k].amount,
                      bills |-> Len(call.selectedBills),
                      selectedBillIds |-> call.selectedBills]
             IN  call' = [call EXCEPT
                            !.op = "processPayment: success",
                            !.paymentHistory = addPaymentToHistory(@, paymentData),
                            !.selectedBills = << >>,
                            !.invocations[k].pc = "done",
                            !.invocations[k].paymentData = paymentData]
    /\ UNCHANGED <<services, month, reqs>>

NextPayment ==
    \/ ToggleBillSelection
    \/ ProcessPaymentStart
    \/ ProcessPaymentEnd

SpecPayment == InitPayment /\ [][NextPayment]_vars

-----------------------------------------------------------------------------
(* Properties of the upload handler (Spec, SpecConcurrent)                 *)

\* some call of the pipeline raises for this file: a collaborator or an
\* analyzer rejects, or the record has a previous month with a usage
DocumentFails(file) ==
    \/ file.raises # NoFault
    \/ /\ file.data.comparisons.present
       /\ file.data.comparisons.previousMonth.present
       /\ file.data.comparisons.previousMonth.usage # 0

\* the artifacts of a document processed on its own, with the tables as constructed
ArtifactsAlone(file, m, draws) ==
    LET data == processDocument(file)
        anomalies == detectAnomalies(data, InitThresholds)
        predictions == generatePredictions(data, InitSeasonalFactors, m)
    IN  [filename |-> file.originalname,
         success |-> TRUE,
         data |-> data,
         anomalies |-> anomalies,
         predictions |-> predictions,
         recommendations |-> generateRecommendations(data, anomalies, predictions),
         patterns |-> analyzePatterns(data, m, draws),
         confidence |-> file.confidence]

IsFailureEntry(entry, file) ==
    /\ DOMAIN entry = {"filename", "success", "error"}
    /\ entry.filename = file.originalname
    /\ entry.success = FALSE

IsSuccessEntry(entry, file) ==
    \E draws \in RandomDraws : entry = ArtifactsAlone(file, month, draws)

\* C1: a document that fails, at whatever position and in whatever call, yields
\* {filename, success: false, error}; every other document of the batch is
\* still processed and yields a success entry with its artifacts; nothing
\* escapes the per-document catch (the handler never answers 500).
C1_FailureIsolation ==
    \A r \in DOMAIN reqs :
        LET q == reqs[r]
        IN  /\ q.response.status \in {0, 200, 400}
            /\ Len(q.results) <= Len(q.files)
            /\ \A k \in 1..Len(q.results) :
                  IF DocumentFails(q.files[k])
                  THEN IsFailureEntry(q.results[k], q.files[k])
                  ELSE IsSuccessEntry(q.results[k], q.files[k])
            /\ (q.pc = "done" /\ Len(q.files) > 0) =>
                  /\ q.response.status = 200
                  /\ Len(q.results) = Len(q.files)
                  /\ q.response.results = q.results

\* the extraction of the first document raised; the second document went
\* through and its anomaly was reported
C1_Witness ==
    \E r \in DOMAIN reqs :
        LET q == reqs[r]
        IN  /\ q.pc = "done"
            /\ Len(q.files) = 2
            /\ q.files[1].raises = "processDocument"
            /\ q.files[2].raises = NoFault
            /\ ~q.response.results[1].success
            /\ q.response.results[2].success
            /\ Len(q.response.results[2].anomalies) = 1

\* C2: the answer to an upload of n >= 1 documents has n entries in submission
\* order, totalFiles = n, and successfulFiles = the number of entries with
\* success = true.
C2_ResponseCounts ==
    \A r \in DOMAIN reqs :
        LET q == reqs[r]
            n == Len(q.files)
        IN  (q.pc = "done" /\ n > 0) =>
                /\ Len(q.response.results) = n
                /\ \A k \in 1..n :
                      q.response.results[k].filename = q.files[k].originalname
                /\ q.response.totalFiles = n
                /\ q.response.successfulFiles =
                      Cardinality({k \in 1..n : q.response.results[k].success})
                /\ q.response.successfulFiles =
                      Cardinality({k \in 1..n : ~DocumentFails(q.files[k])})

\* b.pdf, which fails, was submitted before a.pdf, which goes through
C2_Witness ==
    \E r \in DOMAIN reqs :
        LET q == reqs[r]
        IN  /\ q.pc = "done"
            /\ Len(q.files) = 2
            /\ q.files[1].originalname = "b.pdf"
            /\ q.files[2].originalname = "a.pdf"
            /\ q.response.results[1].filename = "b.pdf"
            /\ ~q.response.results[1].success
            /\ q.response.results[2].success
            /\ q.response.totalFiles = 2
            /\ q.response.successfulFiles = 1

\* the answer to the request when it runs alone
ResponseAlone(files, m, results) ==
    IF Len(files) = 0 THEN [status |-> 400, error |-> "No files uploaded"]
    ELSE [status |-> 200,
          success |-> TRUE,
          results |-> results,
          totalFiles |-> Len(files),
          successfulFiles |-> Cardinality({k \in 1..Len(files) : ~DocumentFails(files[k])})]

\* C3: whatever the interleaving of the requests, the tables of the shared
\* instances keep the values their constructors gave them, what a request has
\* computed so far is what it computes from its own document, and its answer
\* is the answer it gets when it runs alone.
C3_NoSharedMutableState ==
    /\ anomalyDetector.thresholds = InitThresholds
    /\ predictiveAnalyzer.seasonalFactors = InitSeasonalFactors
    /\ recommendationEngine.categories = InitCategories
    /\ \A r \in DOMAIN reqs :
        LET q == reqs[r]
        IN  /\ "detectAnomalies" \in q.completed =>
                q.anomalies = detectAnomalies(processDocument(q.files[q.i]), InitThresholds)
            /\ "generatePredictions" \in q.completed =>
                q.predictions = generatePredictions(processDocument(q.files[q.i]),
                                                    InitSeasonalFactors, month)
            /\ \A k \in 1..Len(q.results) :
                  IF DocumentFails(q.files[k])
                  THEN IsFailureEntry(q.results[k], q.files[k])
                  ELSE IsSuccessEntry(q.results[k], q.files[k])
            /\ q.pc = "done" => q.response = ResponseAlone(q.files, month, q.results)

\* two requests with different documents are both in the middle of the pipeline
C3_Witness ==
    /\ Len(reqs) >= 2
    /\ reqs[1].pc = "analyzePatterns"
    /\ reqs[2].pc = "generatePredictions"
    /\ reqs[1].extractedData.comparisons.present
    /\ ~reqs[2].extractedData.comparisons.present
    /\ Len(reqs[1].anomalies) = 2
    /\ Len(reqs[2].anomalies) = 1

\* C4 as stated: when the recommendation synthesis starts for a document, the
\* anomaly detection, the prediction and the pattern analysis of that document
\* have completed.
C4_Original_RecommendAfterAllThree ==
    \A r \in DOMAIN reqs :
        reqs[r].pc = "generateRecommendations" =>
            {"detectAnomalies", "generatePredictions", "analyzePatterns"}
                \subseteq reqs[r].completed

\* C4 amended: when the recommendation synthesis starts for a document, the
\* anomaly detection and the prediction of that document have completed and
\* the pattern analysis has not; the synthesis gets the record, the anomalies
\* and the predictions of that document; the pattern analysis starts only
\* after the synthesis.
C4_RecommendAfterAnomaliesAndPredictions ==
    \A r \in DOMAIN reqs :
        LET q == reqs[r]
        IN  /\ q.pc = "generateRecommendations" =>
                /\ {"processDocument", "detectAnomalies", "generatePredictions"}
                      \subseteq q.completed
                /\ "analyzePatterns" \notin q.completed
                /\ q.extractedData = processDocument(q.files[q.i])
                /\ q.anomalies = detectAnomalies(q.extractedData, InitThresholds)
                /\ q.predictions =
                      generatePredictions(q.extractedData, InitSeasonalFactors, month)
            /\ "generateRecommendations" \in q.completed =>
                q.recommendations =
                    generateRecommendations(q.extractedData, q.anomalies, q.predictions)
            /\ q.pc = "analyzePatterns" => "generateRecommendations" \in q.completed

\* the synthesis has returned recommendations for two anomalies and the
\* pattern analysis is about to start
C4_Witness ==
    \E r \in DOMAIN reqs :
        LET q == reqs[r]
        IN  /\ q.pc = "analyzePatterns"
            /\ Len(q.anomalies) = 2
            /\ Len(q.recommendations.immediate) = 2
            /\ q.predictions.present

-----------------------------------------------------------------------------
(* Properties of detectAnomalies (SpecDetect)                              *)

Detected == call.op = "detectAnomalies"

SeverityRank == [mild |-> 1, moderate |-> 2, severe |-> 3]

DetectionRank == [usage_anomaly |-> 1, cost_anomaly |-> 2, peak_usage_anomaly |-> 3]

AnomaliesOfType(t) ==
    {i \in 1..Len(call.anomalies) : call.anomalies[i].type = t}

\* C5: the list returned by detectAnomalies is in the order severe > moderate >
\* mild, and anomalies of equal severity keep the detection order usage, cost,
\* peak-usage.
C5_SortedBySeverityStable ==
    Detected =>
        \A i, j \in 1..Len(call.anomalies) :
            i < j =>
                LET a == call.anomalies[i]
                    b == call.anomalies[j]
                IN  \/ SeverityRank[a.severity] > SeverityRank[b.severity]
                    \/ /\ a.severity = b.severity
                       /\ DetectionRank[a.type] < DetectionRank[b.type]

\* a severe cost anomaly was moved in front of a moderate usage anomaly, which
\* stays in front of the equally moderate peak-usage anomaly
C5_Witness ==
    /\ Detected
    /\ Len(call.anomalies) = 3
    /\ call.anomalies[1].type = "cost_anomaly"
    /\ call.anomalies[1].severity = "severe"
    /\ call.anomalies[2].type = "usage_anomaly"
    /\ call.anomalies[3].type = "peak_usage_anomaly"
    /\ call.anomalies[2].severity = "moderate"
    /\ call.anomalies[3].severity = "moderate"

PreviousMonthAbsent(b) ==
    ~b.comparisons.present \/ ~b.comparisons.previousMonth.present

\* C6: a record without comparisons.previousMonth (comparisons absent, or
\* present without previousMonth) gets no usage_anomaly and no cost_anomaly,
\* whatever its totalKwh and totalAmount.
C6_NoAnomalyWithoutPreviousMonth ==
    (Detected /\ PreviousMonthAbsent(call.billData)) =>
        /\ AnomaliesOfType("usage_anomaly") = {}
        /\ AnomaliesOfType("cost_anomaly") = {}

\* comparisons is present, previousMonth is not; the detectors ran (the record's
\* peak-usage anomaly shows it) on non-zero usage and amount
C6_Witness ==
    /\ Detected
    /\ call.billData.comparisons.present
    /\ ~call.billData.comparisons.previousMonth.present
    /\ call.billData.usage.totalKwh = 1200
    /\ call.billData.charges.totalAmount = 15000
    /\ Len(call.anomalies) = 1
    /\ call.anomalies[1].type = "peak_usage_anomaly"

\* the tier of an impact when the tiers are (lo, mid], (mid, hi], (hi, oo)
TierOpenClosed(impact, mid, hi) ==
    IF FracGt(impact, hi) THEN "severe"
    ELSE IF FracGt(impact, mid) THEN "moderate"
    ELSE "mild"

\* the tier of an impact when the tiers are (lo, mid), [mid, hi), [hi, oo)
TierClosedOpen(impact, mid, hi) ==
    IF FracGe(impact, hi) THEN "severe"
    ELSE IF FracGe(impact, mid) THEN "moderate"
    ELSE "mild"

\* C7 as stated: usage severity is mild on (15,25], moderate on (25,40], severe
\* on (40,oo); cost severity is mild on (20,35], moderate on (35,50], severe on
\* (50,oo).
C7_Original_PartitionOpenClosed ==
    Detected =>
        \A i \in 1..Len(call.anomalies) :
            LET a == call.anomalies[i]
            IN  /\ a.type = "usage_anomaly" =>
                    /\ FracGt(a.impact, 15)
                    /\ a.severity = TierOpenClosed(a.impact, 25, 40)
                /\ a.type = "cost_anomaly" =>
                    /\ FracGt(a.impact, 20)
                    /\ a.severity = TierOpenClosed(a.impact, 35, 50)

\* C7 amended: a usage anomaly is emitted exactly for |change| > 15 and is mild
\* on (15,25), moderate on [25,40), severe on [40,oo); a cost anomaly is emitted
\* exactly for |change| > 20 and is mild on (20,35), moderate on [35,50), severe
\* on [50,oo).
C7_PartitionClosedOpen ==
    Detected =>
        /\ \A i \in 1..Len(call.anomalies) :
            LET a == call.anomalies[i]
            IN  /\ a.type = "usage_anomaly" =>
                    /\ FracGt(a.impact, 15)
                    /\ a.severity = TierClosedOpen(a.impact, 25, 40)
                /\ a.type = "cost_anomaly" =>
                    /\ FracGt(a.impact, 20)
                    /\ a.severity = TierClosedOpen(a.impact, 35, 50)
        /\ LET b == call.billData
               pm == b.comparisons.previousMonth
           IN  /\ (b.comparisons.present /\ pm.present /\ pm.usage # 0
                     /\ Abs(b.usage.totalKwh - pm.usage) * 100 > 15 * pm.usage)
                     => AnomaliesOfType("usage_anomaly") # {}
               /\ (b.comparisons.present /\ pm.present /\ pm.amount # 0
                     /\ Abs(b.charges.totalAmount - pm.amount) * 100 > 20 * pm.amount)
                     => AnomaliesOfType("cost_anomaly") # {}

\* the two boundary values: a usage change of exactly 25% is moderate and a
\* cost change of exactly 50% is severe
C7_Witness ==
    /\ Detected
    /\ \E i \in AnomaliesOfType("usage_anomaly") :
         /\ call.anomalies[i].impact.num = 25 * call.anomalies[i].impact.den
         /\ call.anomalies[i].severity = "moderate"
    /\ \E i \in AnomaliesOfType("cost_anomaly") :
         /\ call.anomalies[i].impact.num = 50 * call.anomalies[i].impact.den
         /\ call.anomalies[i].severity = "severe"

ProbeComparisons ==
    [present |-> TRUE,
     previousMonth |-> [present |-> TRUE, usage |-> 1000, amount |-> 10000]]

\* records that differ from one another in the current usage only, and in the
\* current amount only
UsageProbes == {BillRecord(k, 0, 10000, ProbeComparisons) : k \in KwhValues}
CostProbes == {BillRecord(1000, 0, a, ProbeComparisons) : a \in AmountValues}

\* the usage (cost) anomalies the detector raises for the probe records
ProbeAnomalies(type) ==
    IF type = "usage_anomaly"
    THEN {detectUsageAnomalies(p, anomalyDetector.thresholds) : p \in UsageProbes} \ {<< >>}
    ELSE IF type = "cost_anomaly"
    THEN {detectCostAnomalies(p, anomalyDetector.thresholds) : p \in CostProbes} \ {<< >>}
    ELSE {}

\* C8: of two changes that both raise an anomaly of the same type, the larger
\* one never gets the lower severity.
C8_SeverityMonotonic ==
    Detected =>
        \A i \in 1..Len(call.anomalies) :
            LET a == call.anomalies[i]
            IN  \A other \in ProbeAnomalies(a.type) :
                    /\ FracLeq(other[1].impact, a.impact)
                         => SeverityRank[other[1].severity] <= SeverityRank[a.severity]
                    /\ FracLeq(a.impact, other[1].impact)
                         => SeverityRank[a.severity] <= SeverityRank[other[1].severity]

\* a moderate usage anomaly, which lies between the mild and the severe ones of
\* the probe records
C8_Witness ==
    /\ Detected
    /\ \E i \in AnomaliesOfType("usage_anomaly") : call.anomalies[i].severity = "moderate"
    /\ \E other \in ProbeAnomalies("usage_anomaly") : other[1].severity = "severe"
    /\ \E other \in ProbeAnomalies("usage_anomaly") : other[1].severity = "mild"

PeakExactlyHalf(b) == 2 * b.usage.peakKwh = b.usage.totalKwh

\* C9 as stated: a record whose peakKwh is exactly half of its totalKwh gets a
\* severe peak_usage_anomaly.
C9_Original_HalfPeakSevere ==
    (Detected /\ PeakExactlyHalf(call.billData)) =>
        \E i \in AnomaliesOfType("peak_usage_anomaly") :
            call.anomalies[i].severity = "severe"

\* C9 amended: a record with totalKwh > 0 whose peakKwh is exactly half of its
\* totalKwh gets exactly one peak_usage_anomaly, and its severity is moderate.
C9_HalfPeakModerate ==
    (Detected /\ PeakExactlyHalf(call.billData) /\ call.billData.usage.totalKwh > 0) =>
        /\ Cardinality(AnomaliesOfType("peak_usage_anomaly")) = 1
        /\ \A i \in AnomaliesOfType("peak_usage_anomaly") :
              /\ call.anomalies[i].severity = "moderate"
              /\ call.anomalies[i].impact.num = 50 * call.anomalies[i].impact.den

\* peak 500 kWh of total 1000 kWh
C9_Witness ==
    /\ Detected
    /\ call.billData.usage.totalKwh = 1000
    /\ call.billData.usage.peakKwh = 500
    /\ AnomaliesOfType("peak_usage_anomaly") # {}

\* C10: a record with usage.totalKwh = 0 gets no usage_anomaly, whatever the
\* previous-month usage is.  (detectAnomalies is a total function of the record
\* here: it cannot raise.)
C10_ZeroUsageNoUsageAnomaly ==
    (Detected /\ call.billData.usage.totalKwh = 0) =>
        AnomaliesOfType("usage_anomaly") = {}

-----------------------------------------------------------------------------
(* Properties of generateRecommendations (SpecRecommend)                   *)

Recommended == call.op = "generateRecommendations"

\* the same number, for two fractions with positive denominators
FracEq(a, b) == Reduce(a) = Reduce(b)

\* the rank a priority has in a descending order; a recommendation derived
\* from an anomaly carries the anomaly's severity
PriorityRank(p) ==
    CASE p \in {"high", "severe"} -> 3
      [] p \in {"medium", "moderate"} -> 2
      [] p \in {"low", "mild"} -> 1

SortedBucket(bucket) ==
    \A k \in 1..(Len(bucket) - 1) :
        \/ PriorityRank(bucket[k].priority) > PriorityRank(bucket[k + 1].priority)
        \/ /\ PriorityRank(bucket[k].priority) = PriorityRank(bucket[k + 1].priority)
           /\ FracLeq(bucket[k + 1].savings, bucket[k].savings)

\* C11: in the result of generateRecommendations each of the buckets immediate,
\* shortTerm and longTerm is in descending order of priority and, among equal
\* priorities, in descending order of savings.
C11_BucketsSorted ==
    Recommended =>
        /\ SortedBucket(call.recommendations.immediate)
        /\ SortedBucket(call.recommendations.shortTerm)
        /\ SortedBucket(call.recommendations.longTerm)

\* C12: every recommendation of every bucket has a priority among high, medium
\* and low.
C12_PrioritiesHighMediumLow ==
    Recommended =>
        \A category \in DOMAIN call.recommendations :
            \A k \in 1..Len(call.recommendations[category]) :
                call.recommendations[category][k].priority \in {"high", "medium", "low"}

\* the multiplier of a severity, as a fraction
SeverityMultiplier(severity) ==
    CASE severity = "severe" -> Frac(25, 100)
      [] severity = "moderate" -> Frac(15, 100)
      [] severity = "mild" -> Frac(5, 100)

FracTimes(a, b) == Reduce(Frac(Reduce(a).num * Reduce(b).num, Reduce(a).den * Reduce(b).den))

\* C13: the immediate bucket has one recommendation per anomaly passed, in the
\* order of the anomalies, and nothing else; each has the severity of its
\* anomaly as priority and savings = impact x multiplier of the severity
\* (severe 0.25, moderate 0.15, mild 0.05).
C13_OneImmediatePerAnomaly ==
    Recommended =>
        /\ Len(call.recommendations.immediate) = Len(call.anomalies)
        /\ \A k \in 1..Len(call.anomalies) :
              LET rec == call.recommendations.immediate[k]
                  anomaly == call.anomalies[k]
              IN  /\ rec.title = <<"Address", anomaly.title>>
                  /\ rec.priority = anomaly.severity
                  /\ Reduce(rec.savings) =
                        FracTimes(anomaly.impact, SeverityMultiplier(anomaly.severity))

\* a mild anomaly supplied before a severe one: the bucket keeps that order
C13_Witness ==
    /\ Recommended
    /\ ~call.chain
    /\ Len(call.anomalies) = 2
    /\ call.anomalies[1].severity = "mild"
    /\ call.anomalies[2].severity = "severe"
    /\ call.recommendations.immediate[1].priority = "mild"
    /\ call.recommendations.immediate[2].priority = "severe"

AuditRecommendations ==
    {k \in 1..Len(call.recommendations.shortTerm) :
        call.recommendations.shortTerm[k].title = <<"Energy Efficiency Audit">>}

\* usage 1200 kWh against 847 kWh the month before
C14_Scenario ==
    /\ call.billData.usage.totalKwh = 1200
    /\ call.billData.comparisons.present
    /\ call.billData.comparisons.previousMonth.present
    /\ call.billData.comparisons.previousMonth.usage = 847

\* C14: through detectAnomalies then generateRecommendations, a record with
\* totalKwh > 1000 gets exactly one shortTerm Energy Efficiency Audit
\* recommendation, with savings = totalAmount x 0.20, and a record with
\* totalKwh <= 1000 gets none; usage 1200 against 847 the month before gives a
\* severe usage anomaly titled as an increase.
C14_AuditAboveThousandKwh ==
    (Recommended /\ call.chain) =>
        /\ call.billData.usage.totalKwh > 1000 =>
              /\ Cardinality(AuditRecommendations) = 1
              /\ \A k \in AuditRecommendations :
                    FracEq(call.recommendations.shortTerm[k].savings,
                           Frac(call.billData.charges.totalAmount, 500))
        /\ call.billData.usage.totalKwh <= 1000 => AuditRecommendations = {}
        /\ C14_Scenario =>
              \E k \in 1..Len(call.anomalies) :
                  /\ call.anomalies[k].type = "usage_anomaly"
                  /\ call.anomalies[k].severity = "severe"
                  /\ call.anomalies[k].title = "Increased Usage Pattern"

C14_Witness ==
    /\ Recommended
    /\ call.chain
    /\ C14_Scenario
    /\ call.billData.charges.totalAmount = 15000
    /\ AuditRecommendations # {}
    /\ \E k \in 1..Len(call.anomalies) :
          call.anomalies[k].type = "usage_anomaly" /\ call.anomalies[k].severity = "severe"

\* a recommendation of the bucket has this title and these savings
HasRecommendation(bucket, title, savings) ==
    \E k \in 1..Len(bucket) :
        bucket[k].title = <<title>> /\ FracEq(bucket[k].savings, savings)

\* C15: whatever the usage, the peak ratio, the anomalies and the predictions,
\* shortTerm holds the smart-thermostat recommendation (totalAmount x 0.12) and
\* longTerm holds the rate-plan analysis (x 0.10), the appliance-efficiency
\* review (x 0.08) and the insulation assessment (x 0.15).
C15_BaselineRecommendations ==
    Recommended =>
        LET total == call.billData.charges.totalAmount
        IN  /\ HasRecommendation(call.recommendations.shortTerm,
                                 "Smart Thermostat Installation", Frac(total * 3, 2500))
            /\ HasRecommendation(call.recommendations.longTerm,
                                 "Rate Plan Analysis", Frac(total, 1000))
            /\ HasRecommendation(call.recommendations.longTerm,
                                 "Appliance Efficiency Review", Frac(total * 2, 2500))
            /\ HasRecommendation(call.recommendations.longTerm,
                                 "Home Insulation Assessment", Frac(total * 3, 2000))

\* no predictions, two supplied anomalies, usage below every threshold
C15_Witness ==
    /\ Recommended
    /\ ~call.chain
    /\ ~call.predictions.present
    /\ Len(call.anomalies) = 2
    /\ call.billData.usage.totalKwh = 950
    /\ Len(call.recommendations.shortTerm) = 1
    /\ Len(call.recommendations.longTerm) = 3

-----------------------------------------------------------------------------
(* Properties of generatePredictions (SpecPredict)                         *)

HasPreviousMonth(b) == b.comparisons.present /\ b.comparisons.previousMonth.present

\* (current - previous) / previous, or 0.02 without a previous month
ExpectedTrend(b) ==
    IF HasPreviousMonth(b)
    THEN Frac(b.charges.totalAmount - b.comparisons.previousMonth.amount,
              b.comparisons.previousMonth.amount)
    ELSE Frac(2, 100)

\* n is x rounded to the nearest integer, halves upwards: n <= x + 1/2 < n + 1
IsRounded(n, x) ==
    LET p == Reduce(x).num
        q == Reduce(x).den
    IN  2 * n * q <= 2 * p + q /\ 2 * p + q < 2 * n * q + 2 * q

\* value x (1 + trend)
Grown(value, trend) ==
    Frac(value * (Reduce(trend).den + Reduce(trend).num), Reduce(trend).den)

\* C16: the trend is (currentAmount - previousAmount) / previousAmount with a
\* previous month and 0.02 without; nextMonth.usage is usage x (1 + trend)
\* rounded to a whole kWh, nextMonth.amount is amount x (1 + trend) rounded to
\* cents, the confidence is 0.85; 200 against 100 gives an amount of 400.
C16_NextMonthFollowsTrend ==
    \A k \in 1..Len(call.results) :
        LET b == call.billData
            nextMonth == call.results[k].predictions.nextMonth
        IN  /\ IsRounded(nextMonth.usage, Grown(b.usage.totalKwh, ExpectedTrend(b)))
            /\ IsRounded(nextMonth.amount, Grown(b.charges.totalAmount, ExpectedTrend(b)))
            /\ nextMonth.confidence = 85
            /\ (/\ HasPreviousMonth(b)
                /\ b.charges.totalAmount = 20000
                /\ b.comparisons.previousMonth.amount = 10000) =>
                    nextMonth.amount = 40000

\* 200.00 against 100.00 the month before, and 1201 kWh doubled
C16_Witness ==
    /\ Len(call.results) >= 1
    /\ HasPreviousMonth(call.billData)
    /\ call.billData.charges.totalAmount = 20000
    /\ call.billData.comparisons.previousMonth.amount = 10000
    /\ call.billData.usage.totalKwh = 1201
    /\ call.results[1].predictions.nextMonth.amount = 40000
    /\ call.results[1].predictions.nextMonth.usage = 2402

MonthNames ==
    <<"January", "February", "March", "April", "May", "June", "July", "August",
      "September", "October", "November", "December">>

\* the calendar month of a value of Date.prototype.getMonth(), 0 = January
CalendarMonth(index) == MonthNames[index + 1]

\* the table of the claim
SeasonNovemberToJanuary(name) ==
    CASE name \in {"November", "December", "January"} -> "winter"
      [] name \in {"February", "March", "April"} -> "spring"
      [] name \in {"May", "June", "July", "August"} -> "summer"
      [] name \in {"September", "October"} -> "fall"

SeasonDecemberToFebruary(name) ==
    CASE name \in {"December", "January", "February"} -> "winter"
      [] name \in {"March", "April", "May"} -> "spring"
      [] name \in {"June", "July", "August", "September"} -> "summer"
      [] name \in {"October", "November"} -> "fall"

\* the factor of a season, in tenths
FactorOfSeason(season) ==
    CASE season = "winter" -> 13
      [] season = "spring" -> 9
      [] season = "summer" -> 14
      [] season = "fall" -> 10

\* quarterly entry i is the record scaled by the factor of the season that
\* SeasonOf gives the calendar month i months ahead, and the pattern
\* analyzer's season of the current month is the one SeasonOf gives it
SeasonsFollow(SeasonOf(_)) ==
    /\ \A k \in 1..Len(call.results) :
          \A i \in 1..3 :
              LET ahead == CalendarMonth((call.results[k].month + i) % 12)
                  factor == FactorOfSeason(SeasonOf(ahead))
                  entry == call.results[k].predictions.quarterly[i]
              IN  /\ entry.month = i
                  /\ IsRounded(entry.usage,
                               Frac(call.billData.usage.totalKwh * factor, 10))
                  /\ IsRounded(entry.amount,
                               Frac(call.billData.charges.totalAmount * factor, 10))
    /\ call.op = "getSeason" => call.season = SeasonOf(CalendarMonth(month))

\* C17 as stated: the seasons are winter = November to January, spring =
\* February to April, summer = May to August, fall = September and October.
C17_Original_WinterFromNovember == SeasonsFollow(SeasonNovemberToJanuary)

\* C17 amended: for every current month and offset i in 1..3, quarterly entry i
\* is scaled by the factor of the season of the calendar month i months ahead,
\* with winter = December to February (1.3), spring = March to May (0.9),
\* summer = June to September (1.4), fall = October and November (1.0); the
\* pattern analyzer's current season follows the same table.
C17_WinterFromDecember == SeasonsFollow(SeasonDecemberToFebruary)

\* invoked in November: the entries for December and February carry the winter
\* factor
C17_Witness ==
    /\ Len(call.results) >= 1
    /\ CalendarMonth(call.results[1].month) = "November"
    /\ call.billData.charges.totalAmount = 20000
    /\ call.results[1].predictions.quarterly[1].amount = 26000
    /\ call.results[1].predictions.quarterly[3].amount = 26000
    /\ call.op = "getSeason"
    /\ CalendarMonth(month) = "November"
    /\ call.season = "fall"

\* C18 as stated: two invocations of generatePredictions with equal records
\* return equal predictions, whatever else differs between them.
C18_Original_EqualRecordsEqualPredictions ==
    \A j, k \in 1..Len(call.results) :
        call.results[j].predictions = call.results[k].predictions

\* C18 amended: two invocations with equal records return equal nextMonth,
\* annual and seasonal predictions, and equal quarterly predictions when they
\* are made in the same calendar month.
C18_EqualRecordsAndMonthEqualPredictions ==
    \A j, k \in 1..Len(call.results) :
        LET first == call.results[j]
            second == call.results[k]
        IN  /\ first.predictions.nextMonth = second.predictions.nextMonth
            /\ first.predictions.annual = second.predictions.annual
            /\ first.predictions.seasonal = second.predictions.seasonal
            /\ first.month = second.month => first.predictions = second.predictions

\* two invocations on one record, in February and in March: the quarterly
\* predictions differ, the others do not
C18_Witness ==
    /\ Len(call.results) = 2
    /\ call.billData.charges.totalAmount = 14533
    /\ CalendarMonth(call.results[1].month) = "February"
    /\ CalendarMonth(call.results[2].month) = "March"
    /\ call.results[1].predictions.quarterly # call.results[2].predictions.quarterly
    /\ call.results[1].predictions.nextMonth = call.results[2].predictions.nextMonth
    /\ call.results[1].predictions.seasonal = call.results[2].predictions.seasonal

-----------------------------------------------------------------------------
(* Properties of the normalizer (SpecNormalize)                            *)

\* the keys of a bill record whose values are objects
SectionKeys ==
    {"accountInfo", "billingPeriod", "charges", "usage", "rates", "comparisons"}

\* the keys of the object under `key` whose values are objects
ObjectKeysUnder(key) == IF key = "comparisons" THEN {"previousMonth", "yearAgo"} ELSE {}

\* the merge in which, at every depth, a field of `record` wins and a field
\* `record` omits has the value of `default`; objectKeys are the keys of
\* this level whose values are objects
RECURSIVE DeepMerge(_, _, _)
DeepMerge(default, record, objectKeys) ==
    [k \in DOMAIN default \cup DOMAIN record |->
        IF k \notin DOMAIN record THEN default[k]
        ELSE IF k \notin DOMAIN default THEN record[k]
        ELSE IF k \in objectKeys THEN DeepMerge(default[k], record[k], ObjectKeysUnder(k))
        ELSE record[k]]

\* C19: the record fillMissingData returns has, at every depth, the value of
\* the input for each field the input supplies and the reference default for
\* each field the input omits; the input record is as it was.
C19_DeepMergeExplicitWins ==
    call.op = "fillMissingData" =>
        /\ call.filled = DeepMerge(generateMockStructuredData, call.original, SectionKeys)
        /\ call.data = call.original

\* the record validateAndEnhanceData was called with
ValidatedInput == IF "filled" \in DOMAIN call THEN call.filled ELSE call.data

WarningRecorded ==
    /\ "validationWarnings" \in DOMAIN call.validated
    /\ \E k \in 1..Len(call.validated.validationWarnings) :
          call.validated.validationWarnings[k] = DiscrepancyWarning

\* C20: for a record with a total amount, validateAndEnhanceData records the
\* discrepancy warning exactly when |totalAmount - (baseCharge + energyCharges
\* + deliveryCharges + taxes + fees + adjustments)| > 5; in particular it
\* records none when the sub-charges sum to the total.
C20_WarningIffDiscrepancyAboveFive ==
    (/\ call.op = "validateAndEnhanceData"
     /\ Truthy(Section(ValidatedInput, "charges"), "totalAmount")) =>
        LET charges == Section(ValidatedInput, "charges")
            subCharges ==
                OrZero(charges, "baseCharge") + OrZero(charges, "energyCharges") +
                OrZero(charges, "deliveryCharges") + OrZero(charges, "taxes") +
                OrZero(charges, "fees") + OrZero(charges, "adjustments")
        IN  WarningRecorded <=> Abs(OrZero(charges, "totalAmount") - subCharges) > 500


\* the four fields calculateConfidence looks at, as <<section, key>>
ConfidenceFields ==
    {<<"accountInfo", "accountNumber">>, <<"charges", "totalAmount">>,
     <<"usage", "totalKwh">>, <<"billingPeriod", "startDate">>}

\* the record has the field, whatever its value
HasField(data, field) == field[2] \in DOMAIN Section(data, field[1])

\* the record has the field with a value other than 0 and the empty text
HasValue(data, field) ==
    IF field[1] \in {"charges", "usage"}
    THEN Truthy(Section(data, field[1]), field[2])
    ELSE TruthyText(Section(data, field[1]), field[2])

HasWarnings(data) ==
    "validationWarnings" \in DOMAIN data /\ data.validationWarnings # << >>

\* 0.5 + 0.1 per field - 0.3 if synthetic + 0.1 if no warnings, clamped to
\* [0.1, 1.0], in hundredths
ClampedScore(fields, synthetic, warnings) ==
    LET score == 50 + 10 * fields - (IF synthetic THEN 30 ELSE 0)
                 + (IF warnings THEN 0 ELSE 10)
    IN  IF score < 10 THEN 10 ELSE IF score > 100 THEN 100 ELSE score

\* C21 as stated: the confidence is the clamped score over the fields the
\* record has, whatever their values, and lies in [0.1, 1.0].
C21_Original_ScoreOverPresentFields ==
    call.op = "calculateConfidence" =>
        /\ call.confidence =
              ClampedScore(Cardinality({f \in ConfidenceFields : HasField(call.data, f)}),
                           call.rawText = MockText, HasWarnings(call.data))
        /\ call.confidence >= 10 /\ call.confidence <= 100

\* C21 amended: the confidence is 0.5 plus 0.1 for each of accountNumber,
\* totalAmount, totalKwh and billingPeriod.startDate that the record has with
\* a value other than 0 and the empty text, minus 0.3 if the text is the mock
\* text, plus 0.1 if the record has no validation warning, clamped to
\* [0.1, 1.0]; the confidence processDocument returns lies in [0.1, 1.0].
C21_ScoreOverNonZeroFields ==
    /\ call.op = "calculateConfidence" =>
          /\ call.confidence =
                ClampedScore(Cardinality({f \in ConfidenceFields : HasValue(call.data, f)}),
                             call.rawText = MockText, HasWarnings(call.data))
          /\ call.confidence >= 10 /\ call.confidence <= 100
    /\ call.op = "processDocument" =>
          call.processed.confidence >= 10 /\ call.processed.confidence <= 100

\* a record with the four fields, the mock text and a warning, whose totalKwh
\* is 0: three fields count, 0.5 + 0.3 - 0.3 = 0.5
C21_Witness ==
    /\ call.op = "calculateConfidence"
    /\ call.rawText = MockText
    /\ HasWarnings(call.data)
    /\ \A f \in ConfidenceFields : HasField(call.data, f)
    /\ call.data.usage.totalKwh = 0
    /\ call.confidence = 50

\* C22: processing the record processDocument returned once more, with the
\* same text and parser, returns the same record: the same six sub-objects,
\* rates, validation warnings and confidence.
C22_NormalizationIdempotent ==
    call.op = "processedAgain" => call.again = call.processed

\* a record whose charges are off by more than 5 went through twice, on the
\* parse that does not fill, and carries the one warning both times
C22_Witness ==
    /\ call.op = "processedAgain"
    /\ call.openai
    /\ "validationWarnings" \in DOMAIN call.processed
    /\ call.again.validationWarnings = <<DiscrepancyWarning>>
    /\ "rates" \in DOMAIN call.again
    /\ call.again.confidence = call.processed.confidence


-----------------------------------------------------------------------------
(* Properties of the pattern analyzer (SpecPatterns)                       *)

\* neither NaN nor infinite
Defined(r) == r.den # 0

\* C23: for a record with usage.totalKwh = 0 the usage-pattern and efficiency
\* computations return defined values: peak ratio and off-peak ratio are 0,
\* and efficiency, effective rate, average rate and efficiency score are
\* neither NaN nor infinite.
C23_ZeroUsageNeutralValues ==
    call.billData.usage.totalKwh = 0 =>
        /\ call.op = "analyzeUsagePatterns" =>
              /\ Defined(call.usage.peakRatio) /\ call.usage.peakRatio.num = 0
              /\ Defined(call.usage.offPeakRatio) /\ call.usage.offPeakRatio.num = 0
              /\ Defined(call.usage.efficiency)
        /\ call.op = "analyzeCostPatterns" =>
              /\ Defined(call.rateAnalysis.effectiveRate)
              /\ Defined(call.rateAnalysis.averageRate)
        /\ call.op = "calculateEfficiencyScore" => Defined(call.score)


-----------------------------------------------------------------------------
(* Properties of the optimization plan (SpecPlan)                          *)

\* how many times the action is in the list
Occurrences(list, action) == Cardinality({k \in 1..Len(list) : list[k] = action})

\* savings / cost > numerator / denominator, for a cost above 0
SavingsPerCostAbove(action, numerator, denominator) ==
    action.savings.num * denominator > numerator * action.savings.den * 100 * action.cost

\* C24: every action of the plan, immediate or long-term, is in exactly one
\* priority list: high when its cost is 0 or savings/cost > 0.5, medium when
\* savings/cost > 0.2, low otherwise; and in exactly one phase: an immediate
\* action in phase 1, a long-term action below 500 in phase 2, one of 500 or
\* more in phase 3.
C24_OnePriorityOnePhase ==
    call.op = "generateOptimizationPlan" =>
        LET plan == call.plan
            lists == plan.prioritization
            phases == plan.implementation.phases
            InList(action, name) ==
                Occurrences(lists[name], action) = 1
                /\ \A other \in DOMAIN lists \ {name} : Occurrences(lists[other], action) = 0
            InPhase(action, n) ==
                Occurrences(phases[n].actions, action) = 1
                /\ \A m \in DOMAIN phases \ {n} : Occurrences(phases[m].actions, action) = 0
        IN  /\ DOMAIN lists = {"high", "medium", "low"}
            /\ Len(phases) = 3
            /\ \A k \in 1..Len(plan.immediate) :
                  /\ InList(plan.immediate[k], "high")
                  /\ plan.immediate[k].cost = 0
                  /\ InPhase(plan.immediate[k], 1)
            /\ \A k \in 1..Len(plan.longTerm) :
                  LET action == plan.longTerm[k]
                  IN  /\ InList(action,
                                IF action.cost = 0 \/ SavingsPerCostAbove(action, 1, 2)
                                THEN "high"
                                ELSE IF SavingsPerCostAbove(action, 1, 5) THEN "medium"
                                ELSE "low")
                      /\ InPhase(action, IF action.cost < 500 THEN 2 ELSE 3)

\* a bill of 1250.00 without a budget: the lighting conversion returns
\* 100 / 200 = 0.5 and is medium in phase 2, the appliances return
\* 250 / 2000 and are low in phase 3, the two immediate actions are high
C24_Witness ==
    /\ call.op = "generateOptimizationPlan"
    /\ OrZero(Section(call.options.billData, "charges"), "totalAmount") = 125000
    /\ Len(call.plan.longTerm) = 2
    /\ Len(call.plan.prioritization.high) = 2
    /\ Len(call.plan.prioritization.medium) = 1
    /\ Len(call.plan.prioritization.low) = 1
    /\ call.plan.prioritization.medium[1].title = "LED Lighting Conversion"
    /\ call.plan.prioritization.low[1].title = "Energy-Efficient Appliances"
    /\ call.plan.implementation.phases[2].actions[1].cost = 200
    /\ call.plan.implementation.phases[3].actions[1].cost = 2000

\* C30: for a positive constraints.budget the costs of all actions of the
\* plan, immediate and long-term, sum to no more than the budget.
C30_PlanCostWithinBudget ==
    (/\ call.op = "generateOptimizationPlan"
     /\ Truthy(Section(call.options, "constraints"), "budget")
     /\ call.options.constraints.budget > 0) =>
        SumCost(call.plan.immediate \o call.plan.longTerm) <= call.options.constraints.budget


-----------------------------------------------------------------------------
(* Properties of the budgeting recommendation (SpecSupplied)               *)

\* some bucket holds the 'Prepare for Higher Bills' recommendation
HigherBillsRecommended ==
    \E bucket \in {"immediate", "shortTerm", "longTerm"} :
        \E k \in 1..Len(call.recommendations[bucket]) :
            call.recommendations[bucket][k].title = <<"Prepare for Higher Bills">>

\* C25 as stated: whatever the nextMonth.amount of the Prediction, no bucket
\* holds the 'Prepare for Higher Bills' recommendation.
C25_Original_NeverHigherBills ==
    Recommended => ~HigherBillsRecommended

\* C25 amended: the 'Prepare for Higher Bills' recommendation is in no bucket
\* when nextMonth.amount is 0 or more, and in a bucket when it is below 0.
C25_HigherBillsOnlyForNegativeAmount ==
    Recommended => (HigherBillsRecommended <=> call.predictions.nextMonth.amount < 0)

\* an amount of 193.80 and no budgeting recommendation, the seasonal one
\* being there
C25_Witness ==
    /\ Recommended
    /\ call.predictions.nextMonth.amount = 19380
    /\ ~HigherBillsRecommended
    /\ \E k \in 1..Len(call.recommendations.shortTerm) :
          call.recommendations.shortTerm[k].title = <<"Seasonal Usage Preparation">>


-----------------------------------------------------------------------------
(* Properties of the comparative analysis (SpecCompare)                    *)

\* C26: two invocations of generateComparativeAnalysis on one bill record
\* return the same metrics, ranking, insights, opportunities and benchmarks,
\* whatever region, homeType and occupancy each of them is given.
C26_TripleDoesNotMatter ==
    \A j, k \in 1..Len(call.results) :
        call.results[j].comparison = call.results[k].comparison

\* 1300 kWh for 190.00, first with no triple, then for a northeast apartment
\* of a family: both times the usage insight and one opportunity
C26_Witness ==
    /\ Len(call.results) = 2
    /\ call.userBillData.usage.totalKwh = 1300
    /\ call.userBillData.charges.totalAmount = 19000
    /\ DOMAIN call.results[1].options = {"userBillData"}
    /\ DOMAIN call.results[2].options =
          {"userBillData", "region", "homeType", "occupancy"}
    /\ call.results[2].comparison.ranking.usage.rank = "needs_improvement"
    /\ Len(call.results[2].comparison.insights) >= 1
    /\ Len(call.results[2].comparison.opportunities) >= 1


-----------------------------------------------------------------------------
(* Properties of the payment methods (SpecMethods)                         *)

DefaultMethods ==
    {k \in DOMAIN call.paymentMethods : call.paymentMethods[k].isDefault}

\* C27: after any sequence of savePaymentMethod, setDefaultPaymentMethod(id)
\* and removePaymentMethod(id), with ids of listed methods and of no listed
\* method, exactly one payment method has isDefault = true.
C27_ExactlyOneDefault ==
    Cardinality(DefaultMethods) = 1


-----------------------------------------------------------------------------
(* Properties of processPayment (SpecPayment)                              *)

\* the invocation has added its entry to paymentHistory
Paid(invocation) == invocation.pc = "done"

\* C28: when processPayment is invoked again while an earlier invocation is
\* at its awaits, the bills selected when the earlier one started are paid
\* once: of the two invocations one at most adds an entry to paymentHistory.
C28_OverlappingPaidOnce ==
    \A j \in DOMAIN call.invocations :
        \A k \in call.invocations[j].inFlight :
            ~(Paid(call.invocations[k]) /\ Paid(call.invocations[j]))

HistoryIds == {call.paymentHistory[k].id : k \in DOMAIN call.paymentHistory}

\* C29: the entries of paymentHistory have pairwise distinct ids; a step
\* keeps every entry of the history, after the entries it adds; and a
\* processPayment that is rejected leaves paymentHistory and selectedBills
\* as they were.
C29_HistoryGrowsWithDistinctIds ==
    [][/\ Cardinality(HistoryIds) = Len(call.paymentHistory)
       /\ Cardinality(HistoryIds') = Len(call'.paymentHistory)
       /\ Len(call'.paymentHistory) >= Len(call.paymentHistory)
       /\ SubSeq(call'.paymentHistory,
                 Len(call'.paymentHistory) - Len(call.paymentHistory) + 1,
                 Len(call'.paymentHistory)) = call.paymentHistory
       /\ call'.op = "processPayment: error" =>
             /\ call'.paymentHistory = call.paymentHistory
             /\ call'.selectedBills = call.selectedBills]_vars

\* two invocations overlapped and both went through, PAY-006 and PAY-007
\* are in the history, and a third invocation has been rejected since
C29_Witness ==
    /\ call.op = "processPayment: error"
    /\ Len(call.invocations) = 2
    /\ 1 \in call.invocations[2].inFlight
    /\ Paid(call.invocations[1]) /\ Paid(call.invocations[2])
    /\ Len(call.paymentHistory) = 7
    /\ {6, 7} \subseteq HistoryIds

=============================================================================
